---------------------------- MODULE Spec2Model ----------------------------
(***************************************************************************)
(* A model of scm-record's change model (scm-record/src/types.rs) and of   *)
(* scm-diff-editor (scm-diff-editor/src/lib.rs, render.rs).                *)
(*                                                                         *)
(* Strings are sequences of one-character strings, so that splitting into  *)
(* lines and pushing lines back onto a text are computed, not assumed.     *)
(*                                                                         *)
(* The module holds several specifications over one set of variables:      *)
(*   Spec         scm-diff-editor's `run`: process_opts, the recorder,     *)
(*                then print_dry_run or apply_changes                      *)
(*   SpecSelect   File values built by a caller, their checkboxes, and     *)
(*                File::get_selected_contents                              *)
(*   SpecMarkers  a call of make_conflict_markers, one loop iteration per  *)
(*                step                                                     *)
(*   SpecMerge    a call of create_merge, one line of the conflicted text  *)
(*                per step                                                 *)
(* Each specification leaves the variables of the others at their idle     *)
(* values.                                                                 *)
(***************************************************************************)
EXTENDS Integers, Sequences, FiniteSets, TLC

VARIABLES
    file,       \* SpecSelect: the File under construction / selection
    sel,        \* SpecSelect: result of the last get_selected_contents, or NoSel
    opts,       \* Spec: the Opts of the run
    fs,         \* Spec: the filesystem, path -> FileInfo
    fs0,        \* Spec: the filesystem as it was when the run started
    files,      \* Spec: DiffContext.files, then RecordState.files
    write_root, \* Spec: DiffContext.write_root
    pc,         \* Spec: where `run` is
    file_idx,   \* Spec: index of the file apply_changes is at
    recorded,   \* Spec: what Recorder::run returned, "none" before it returns
    ops,        \* Spec: the mutating filesystem operations issued, in order
    result,     \* Spec: what `run` returned, "none" before it returns
    merge_error_path, \* Spec: the path a MissingMergeFile or BinaryMergeFile
                \* error of the run names, None without such an error
    marker_call, \* SpecMarkers: the locals of a call of make_conflict_markers
    merge_call, \* SpecMerge: the locals of a call of create_merge
    recorder,   \* SpecRecorder: the Recorder (its state, focus, expanded items,
                \* quit dialog) and what its run returned
    last_event  \* SpecRecorder: the event handled last and the Recorder before it

selVars == <<file, sel>>

runVars ==
    <<opts, fs, fs0, files, write_root, pc, file_idx, recorded, ops, result,
      merge_error_path>>

mergeVars == <<marker_call, merge_call>>

uiVars == <<recorder, last_event>>

vars == <<selVars, runVars, mergeVars, uiVars>>

(***************************************************************************)
(* Bounds                                                                  *)
(***************************************************************************)
\* SpecSelect: sections plus lines of the File built by the caller
MaxSize == 5

\* sections plus lines of a File built in SpecChecked
MaxItems == 3

\* Spec: length of the texts on the two sides of a two-way diff
MaxTextLen == 2

\* SpecMarkers: the longest run of one marker character in an input
MaxRun == 8

\* SpecMerge: the most lines of a conflicted text
MaxParse == 6

(***************************************************************************)
(* Strings                                                                 *)
(***************************************************************************)
NL == "\n"

EmptyStr == << >>

\* str::split_inclusive('\n'): every piece keeps its terminator; no trailing
\* empty piece.
RECURSIVE SplitFrom(_, _, _)
SplitFrom(s, i, cur) ==
    IF i > Len(s) THEN (IF cur = << >> THEN << >> ELSE <<cur>>)
    ELSE IF s[i] = NL THEN <<Append(cur, s[i])>> \o SplitFrom(s, i + 1, << >>)
    ELSE SplitFrom(s, i + 1, Append(cur, s[i]))

SplitInclusive(s) == SplitFrom(s, 1, << >>)

\* concatenation of a sequence of strings
RECURSIVE Concat(_)
Concat(ss) == IF ss = << >> THEN << >> ELSE Head(ss) \o Concat(Tail(ss))

(***************************************************************************)
(* types.rs: FileMode, Section, SectionChangedLine, File, SelectedContents *)
(***************************************************************************)
Absent == [tag |-> "Absent", mode |-> 0]

Unix(n) == [tag |-> "Unix", mode |-> n]

\* FileMode::FILE_DEFAULT = Unix(0o100644)
FILE_DEFAULT == Unix(33188)

\* Unix(0o100755)
FILE_EXEC == Unix(33261)

Added == "Added"

Removed == "Removed"

SectionChangedLine(checked, ct, line) ==
    [is_checked |-> checked, change_type |-> ct, line |-> line]

SectionUnchanged(lines) == [tag |-> "Unchanged", lines |-> lines]

SectionChanged(lines) == [tag |-> "Changed", lines |-> lines]

SectionFileMode(checked, mode) ==
    [tag |-> "FileMode", is_checked |-> checked, mode |-> mode]

SectionBinary(checked, old, new) ==
    [tag |-> "Binary", is_checked |-> checked,
     old_description |-> old, new_description |-> new]

\* Option: None, Some(x)
None == << >>

Some(x) == <<x>>

File(old_path, path, file_mode, sections) ==
    [old_path |-> old_path, path |-> path, file_mode |-> file_mode,
     sections |-> sections]

SelUnchanged == [tag |-> "Unchanged"]

SelBinary(old, new) ==
    [tag |-> "Binary", old_description |-> old, new_description |-> new]

SelText(contents) == [tag |-> "Text", contents |-> contents]

\* SelectedContents::push_str
\* a plausible slip: a pushed line replaces the text instead of extending it
PushStr_Overwrites(acc, s) ==
    CASE acc.tag = "Unchanged" -> SelText(s)
      [] acc.tag = "Binary" -> acc
      [] acc.tag = "Text" -> SelText(s)

\* SelectedContents::push_str
PushStr(acc, s) ==
    CASE acc.tag = "Unchanged" -> SelText(s)
      [] acc.tag = "Binary" -> acc
      [] acc.tag = "Text" -> SelText(acc.contents \o s)

\* a plausible slip: the last FileMode section is taken
FileModeSection_Last(sections) ==
    LET found == {i \in 1..Len(sections) : sections[i].tag = "FileMode"}
    IN IF found = {} THEN 0 ELSE CHOOSE i \in found : \A j \in found : i >= j

\* sections.iter().find_map(FileMode section): index of the first FileMode
\* section, 0 when there is none
FileModeSection(sections) ==
    LET idx == {i \in 1..Len(sections) : sections[i].tag = "FileMode"}
    IN IF idx = {} THEN 0 ELSE CHOOSE i \in idx : \A j \in idx : i <= j

SelectedFileMode(f) ==
    LET i == FileModeSection(f.sections)
    IN IF i # 0 /\ f.sections[i].is_checked THEN f.sections[i].mode
       ELSE f.file_mode

\* a plausible slip: the unselected mode is always the mode of the file
UnselectedFileMode_OfFile(f) == f.file_mode

UnselectedFileMode(f) ==
    LET i == FileModeSection(f.sections)
    IN IF i # 0 /\ ~f.sections[i].is_checked THEN f.sections[i].mode
       ELSE f.file_mode

\* the body of `for line in lines` of a Section::Unchanged, from line i on;
\* acc is <<acc_selected, acc_unselected>>
RECURSIVE PushUnchangedLines(_, _, _)
PushUnchangedLines(acc, lines, i) ==
    IF i > Len(lines) THEN acc
    ELSE PushUnchangedLines(
            <<PushStr(acc[1], lines[i]), PushStr(acc[2], lines[i])>>,
            lines, i + 1)

\* a plausible slip: the checkbox alone decides the side, whatever the
\* change type
PushChangedLine_IgnoresType(acc, l, selected_file_mode) ==
    IF l.is_checked
    THEN <<PushStr(acc[1], l.line), acc[2]>>
    ELSE <<IF selected_file_mode # Absent
           THEN PushStr(acc[1], EmptyStr) ELSE acc[1],
           PushStr(acc[2], l.line)>>

\* a plausible slip: a line that goes to the unselected side leaves the
\* selected accumulator alone
PushChangedLine_NoEmptyPush(acc, l, selected_file_mode) ==
    IF (l.change_type = Added /\ l.is_checked)
       \/ (l.change_type = Removed /\ ~l.is_checked)
    THEN <<PushStr(acc[1], l.line), acc[2]>>
    ELSE <<acc[1], PushStr(acc[2], l.line)>>

\* one changed line: match (change_type, is_checked)
PushChangedLine(acc, l, selected_file_mode) ==
    IF (l.change_type = Added /\ l.is_checked)
       \/ (l.change_type = Removed /\ ~l.is_checked)
    THEN <<PushStr(acc[1], l.line), acc[2]>>
    ELSE <<IF selected_file_mode # Absent
           THEN PushStr(acc[1], EmptyStr) ELSE acc[1],
           PushStr(acc[2], l.line)>>

RECURSIVE PushChangedLines(_, _, _, _)
PushChangedLines(acc, lines, i, selected_file_mode) ==
    IF i > Len(lines) THEN acc
    ELSE PushChangedLines(PushChangedLine(acc, lines[i], selected_file_mode),
                          lines, i + 1, selected_file_mode)

\* a plausible slip: a Binary section leaves the other accumulator as it is
SelectSection_BinaryKeepsOther(acc, s, selected_file_mode) ==
    CASE s.tag = "Unchanged" -> PushUnchangedLines(acc, s.lines, 1)
      [] s.tag = "Changed" ->
            PushChangedLines(acc, s.lines, 1, selected_file_mode)
      [] s.tag = "FileMode" -> acc
      [] s.tag = "Binary" ->
            IF s.is_checked
            THEN <<SelBinary(s.old_description, s.new_description), acc[2]>>
            ELSE <<acc[1], SelBinary(s.old_description, s.new_description)>>

\* one iteration of `for section in sections`
SelectSection(acc, s, selected_file_mode) ==
    CASE s.tag = "Unchanged" -> PushUnchangedLines(acc, s.lines, 1)
      [] s.tag = "Changed" ->
            PushChangedLines(acc, s.lines, 1, selected_file_mode)
      [] s.tag = "FileMode" -> acc
      [] s.tag = "Binary" ->
            IF s.is_checked
            THEN <<SelBinary(s.old_description, s.new_description),
                   SelUnchanged>>
            ELSE <<SelUnchanged,
                   SelBinary(s.old_description, s.new_description)>>

RECURSIVE SelectSections(_, _, _, _)
SelectSections(acc, sections, i, selected_file_mode) ==
    IF i > Len(sections) THEN acc
    ELSE SelectSections(SelectSection(acc, sections[i], selected_file_mode),
                        sections, i + 1, selected_file_mode)

\* a plausible slip: the post-pass is left out
EmptyFileFix_Missing(acc, file_mode, side_mode) == acc

\* the post-pass for an added empty file
EmptyFileFix(acc, file_mode, side_mode) ==
    IF file_mode = Absent /\ side_mode # Absent /\ acc = SelUnchanged
    THEN PushStr(acc, EmptyStr) ELSE acc

\* File::get_selected_contents
GetSelectedContents(f) ==
    LET smode == SelectedFileMode(f)
        umode == UnselectedFileMode(f)
        acc == SelectSections(<<SelUnchanged, SelUnchanged>>, f.sections, 1,
                              smode)
    IN [selected |-> [file_mode |-> smode,
                      contents |-> EmptyFileFix(acc[1], f.file_mode, smode)],
        unselected |-> [file_mode |-> umode,
                        contents |-> EmptyFileFix(acc[2], f.file_mode, umode)]]

(***************************************************************************)
(* render.rs: make_section_changed_lines, create_diff, create_file         *)
(***************************************************************************)
\* FileContents and FileInfo (lib.rs)
ContentsAbsent == [tag |-> "Absent"]

ContentsText(contents) ==
    [tag |-> "Text", contents |-> contents, hash |-> <<"sha1", contents>>,
     num_bytes |-> Len(contents)]

ContentsBinary(hash, num_bytes) ==
    [tag |-> "Binary", hash |-> hash, num_bytes |-> num_bytes]

FileInfo(file_mode, contents) == [file_mode |-> file_mode, contents |-> contents]

\* helpers.rs make_binary_description: "{hash} ({num_bytes} bytes)"
MakeBinaryDescription(hash, num_bytes) == <<hash, " (", num_bytes, " bytes)">>

RECURSIVE MapChangedLines(_, _)
MapChangedLines(lines, change_type) ==
    IF lines = << >> THEN << >>
    ELSE <<SectionChangedLine(FALSE, change_type, Head(lines))>>
         \o MapChangedLines(Tail(lines), change_type)

MakeSectionChangedLines(contents, change_type) ==
    MapChangedLines(SplitInclusive(contents), change_type)

\* diffy::Line
Context(line) == [kind |-> "Context", line |-> line]

Delete(line) == [kind |-> "Delete", line |-> line]

Insert(line) == [kind |-> "Insert", line |-> line]

\* Every line-by-line edit script turning the lines o into the lines n.
RECURSIVE EditScripts(_, _)
EditScripts(o, n) ==
    IF o = << >> /\ n = << >> THEN {<< >>}
    ELSE (IF o # << >> /\ n # << >> /\ Head(o) = Head(n)
          THEN {<<Context(Head(o))>> \o s : s \in EditScripts(Tail(o), Tail(n))}
          ELSE {})
         \cup (IF o # << >>
               THEN {<<Delete(Head(o))>> \o s : s \in EditScripts(Tail(o), n)}
               ELSE {})
         \cup (IF n # << >>
               THEN {<<Insert(Head(n))>> \o s : s \in EditScripts(o, Tail(n))}
               ELSE {})

NumContext(script) ==
    Cardinality({i \in 1..Len(script) : script[i].kind = "Context"})

\* diffy's DiffOptions::create_patch with a context length of the whole file:
\* no hunk when the texts are equal, otherwise one hunk holding every line of
\* both texts.  diffy computes a shortest edit script (Myers); which of the
\* shortest scripts it returns is left open: any of them.
PatchHunks(old_contents, new_contents) ==
    IF old_contents = new_contents THEN {<< >>}
    ELSE LET all == EditScripts(SplitInclusive(old_contents),
                                SplitInclusive(new_contents))
         IN {<<s>> : s \in {t \in all : \A u \in all : NumContext(u) <= NumContext(t)}}

\* a plausible slip: every line of the hunk is taken for a change, a context
\* line for a removal
FoldHunk_NoContext(acc, lines) ==
    IF lines = << >> THEN acc
    ELSE Append(acc, SectionChanged(
            [i \in 1..Len(lines) |->
                SectionChangedLine(FALSE,
                    IF lines[i].kind = "Insert" THEN Added ELSE Removed,
                    lines[i].line)]))

\* the fold of create_diff over the lines of one hunk
RECURSIVE FoldHunk(_, _)
FoldHunk(acc, lines) ==
    IF lines = << >> THEN acc
    ELSE LET line == Head(lines)
             last == IF acc = << >> THEN [tag |-> "none"] ELSE acc[Len(acc)]
         IN IF line.kind = "Context"
            THEN IF last.tag = "Unchanged"
                 THEN FoldHunk([acc EXCEPT ![Len(acc)].lines = Append(@, line.line)],
                               Tail(lines))
                 ELSE FoldHunk(Append(acc, SectionUnchanged(<<line.line>>)),
                               Tail(lines))
            ELSE LET cl == SectionChangedLine(FALSE,
                               IF line.kind = "Delete" THEN Removed ELSE Added,
                               line.line)
                 IN IF last.tag = "Changed"
                    THEN FoldHunk([acc EXCEPT ![Len(acc)].lines = Append(@, cl)],
                                  Tail(lines))
                    ELSE FoldHunk(Append(acc, SectionChanged(<<cl>>)), Tail(lines))

RECURSIVE FoldHunks(_)
FoldHunks(hunks) ==
    IF hunks = << >> THEN << >>
    ELSE FoldHunk(<< >>, Head(hunks)) \o FoldHunks(Tail(hunks))

\* create_diff: the section lists it can return, one per patch diffy can return
CreateDiff(old_contents, new_contents) ==
    {FoldHunks(hunks) : hunks \in PatchHunks(old_contents, new_contents)}

\* create_file, the sections pushed for the pair of contents
ContentSections(l, r) ==
    CASE l.tag = "Absent" /\ r.tag = "Absent" -> {<< >>}
      [] l.tag = "Absent" /\ r.tag = "Text" ->
            {<<SectionChanged(MakeSectionChangedLines(r.contents, Added))>>}
      [] l.tag = "Absent" /\ r.tag = "Binary" ->
            {<<SectionBinary(FALSE, None,
                   Some(MakeBinaryDescription(r.hash, r.num_bytes)))>>}
      [] l.tag = "Text" /\ r.tag = "Absent" ->
            {<<SectionChanged(MakeSectionChangedLines(l.contents, Removed))>>}
      [] l.tag = "Text" /\ r.tag = "Text" -> CreateDiff(l.contents, r.contents)
      [] l.tag = "Binary" /\ r.tag = "Absent" ->
            {<<SectionBinary(FALSE,
                   Some(MakeBinaryDescription(l.hash, l.num_bytes)), None)>>}
      [] OTHER ->
            {<<SectionBinary(FALSE,
                   Some(MakeBinaryDescription(l.hash, l.num_bytes)),
                   Some(MakeBinaryDescription(r.hash, r.num_bytes)))>>}

\* a plausible slip: the FileMode section is pushed after the contents
CreateFile_ModeLast(left, left_display_path, right, right_display_path) ==
    LET mode_sections ==
            IF left.file_mode # right.file_mode
            THEN <<SectionFileMode(FALSE, right.file_mode)>> ELSE << >>
    IN {File(IF left_display_path # right_display_path
             THEN Some(left_display_path) ELSE None,
             right_display_path, left.file_mode, cs \o mode_sections)
        : cs \in ContentSections(left.contents, right.contents)}

\* create_file: the Files it can return for the two FileInfos read
CreateFile(left, left_display_path, right, right_display_path) ==
    LET mode_sections ==
            IF left.file_mode # right.file_mode
            THEN <<SectionFileMode(FALSE, right.file_mode)>> ELSE << >>
    IN {File(IF left_display_path # right_display_path
             THEN Some(left_display_path) ELSE None,
             right_display_path, left.file_mode, mode_sections \o cs)
        : cs \in ContentSections(left.contents, right.contents)}

(***************************************************************************)
(* render.rs: make_conflict_markers, create_merge, create_merge_file       *)
(***************************************************************************)
\* `let mut len = 7`
InitialMarkerLen == 7

\* str::repeat
Repeat(c, n) == [i \in 1..n |-> c]

\* str::contains
Contains(all, pat) ==
    \E i \in 0..(Len(all) - Len(pat)) : SubSeq(all, i + 1, i + Len(pat)) = pat

\* str::starts_with
StartsWith(line, prefix) ==
    Len(line) >= Len(prefix) /\ SubSeq(line, 1, Len(prefix)) = prefix

\* a plausible slip: the right marker is one character short
MarkersOfLen_ShortRight(len) ==
    <<Repeat("<", len), Repeat("|", len), Repeat("=", len), Repeat(">", len - 1)>>

\* (left_marker, base_start_marker, base_end_marker, right_marker) of one length
MarkersOfLen(len) ==
    <<Repeat("<", len), Repeat("|", len), Repeat("=", len), Repeat(">", len)>>

\* a plausible slip: only the left marker is looked for
MarkerOccurs_LeftOnly(all, len) == Contains(all, MarkersOfLen(len)[1])

\* the negated loop exit test: one of the four markers occurs in `all`
MarkerOccurs(all, len) ==
    \/ Contains(all, MarkersOfLen(len)[1])
    \/ Contains(all, MarkersOfLen(len)[2])
    \/ Contains(all, MarkersOfLen(len)[3])
    \/ Contains(all, MarkersOfLen(len)[4])

\* the loop of make_conflict_markers, entered with `len`
RECURSIVE MarkerLoop(_, _)
MarkerLoop(all, len) ==
    IF ~MarkerOccurs(all, len) THEN len ELSE MarkerLoop(all, len + 1)

MakeConflictMarkers(base, left, right) ==
    MarkersOfLen(MarkerLoop(base \o left \o right, InitialMarkerLen))

\* the parser's State and MarkerType
StateEmpty ==
    [kind |-> "Empty", lines |-> << >>, left_lines |-> << >>,
     base_lines |-> << >>, right_lines |-> << >>]

StateUnchanged(lines) == [StateEmpty EXCEPT !.kind = "Unchanged", !.lines = lines]

StateLeft(left_lines) == [StateEmpty EXCEPT !.kind = "Left", !.left_lines = left_lines]

StateBase(left_lines, base_lines) ==
    [StateEmpty EXCEPT !.kind = "Base", !.left_lines = left_lines,
                       !.base_lines = base_lines]

StateRight(left_lines, base_lines, right_lines) ==
    [StateEmpty EXCEPT !.kind = "Right", !.left_lines = left_lines,
                       !.base_lines = base_lines, !.right_lines = right_lines]

\* a plausible slip: the base-end marker is not looked for
MarkerType_NoBaseEnd(line, markers) ==
    IF StartsWith(line, markers[1]) THEN "Left"
    ELSE IF StartsWith(line, markers[2]) THEN "BaseStart"
    ELSE IF StartsWith(line, markers[4]) THEN "Right"
    ELSE "None"

MarkerType(line, markers) ==
    IF StartsWith(line, markers[1]) THEN "Left"
    ELSE IF StartsWith(line, markers[2]) THEN "BaseStart"
    ELSE IF StartsWith(line, markers[3]) THEN "BaseEnd"
    ELSE IF StartsWith(line, markers[4]) THEN "Right"
    ELSE "None"

\* a plausible slip: the base lines come first
ConflictSection_BaseFirst(left_lines, base_lines, right_lines) ==
    SectionChanged(MapChangedLines(base_lines, Removed)
                   \o MapChangedLines(left_lines, Added)
                   \o MapChangedLines(right_lines, Added))

\* the Changed section emitted at the right marker
ConflictSection(left_lines, base_lines, right_lines) ==
    SectionChanged(MapChangedLines(left_lines, Added)
                   \o MapChangedLines(base_lines, Removed)
                   \o MapChangedLines(right_lines, Added))

\* one iteration of `for line in conflicted_text.split_inclusive('\n')`:
\* (new_state, new_section)
ParseStep(state, line, markers) ==
    LET mt == MarkerType(line, markers)
    IN CASE state.kind = "Empty" /\ mt = "Left" ->
              [state |-> StateLeft(<< >>), section |-> None]
         [] state.kind = "Empty" /\ mt # "Left" ->
              [state |-> StateUnchanged(<<line>>), section |-> None]
         [] state.kind = "Unchanged" /\ mt = "Left" ->
              [state |-> StateLeft(<< >>),
               section |-> Some(SectionUnchanged(state.lines))]
         [] state.kind = "Unchanged" /\ mt # "Left" ->
              [state |-> StateUnchanged(Append(state.lines, line)),
               section |-> None]
         [] state.kind = "Left" /\ mt = "BaseStart" ->
              [state |-> StateBase(state.left_lines, << >>), section |-> None]
         [] state.kind = "Left" /\ mt # "BaseStart" ->
              [state |-> StateLeft(Append(state.left_lines, line)),
               section |-> None]
         [] state.kind = "Base" /\ mt = "BaseEnd" ->
              [state |-> StateRight(state.left_lines, state.base_lines, << >>),
               section |-> None]
         [] state.kind = "Base" /\ mt # "BaseEnd" ->
              [state |-> StateBase(state.left_lines,
                                   Append(state.base_lines, line)),
               section |-> None]
         [] state.kind = "Right" /\ mt = "Right" ->
              [state |-> StateEmpty,
               section |-> Some(ConflictSection(state.left_lines,
                                   state.base_lines, state.right_lines))]
         [] state.kind = "Right" /\ mt # "Right" ->
              [state |-> StateRight(state.left_lines, state.base_lines,
                                    Append(state.right_lines, line)),
               section |-> None]

\* a plausible slip: an unterminated conflict is emitted as a Changed section
ParseEnd_EmitsUnterminated(state) ==
    IF state.kind = "Unchanged" THEN <<SectionUnchanged(state.lines)>>
    ELSE IF state.kind = "Empty" THEN << >>
    ELSE <<ConflictSection(state.left_lines, state.base_lines, state.right_lines)>>

\* the `match state` after the loop: the sections pushed at the end of input
ParseEnd(state) ==
    IF state.kind = "Unchanged" THEN <<SectionUnchanged(state.lines)>>
    ELSE << >>

\* the parsing loop and its end, from `state` with `sections` emitted so far
RECURSIVE ParseLines(_, _, _, _)
ParseLines(state, sections, lines, markers) ==
    IF lines = << >> THEN sections \o ParseEnd(state)
    ELSE LET r == ParseStep(state, Head(lines), markers)
         IN ParseLines(r.state, sections \o r.section, Tail(lines), markers)

\* the labels diffy writes after its markers
OursLabel == <<" ", "o", "u", "r", "s", NL>>

OriginalLabel == <<" ", "o", "r", "i", "g", "i", "n", "a", "l", NL>>

TheirsLabel == <<" ", "t", "h", "e", "i", "r", "s", NL>>

\* diffy's MergeOptions::merge in Diff3 style, for texts of at most one line
\* each, where the three-way merge is decided on the whole text: a side equal
\* to the base yields the other side, equal sides yield that side, and
\* anything else is one conflict over the whole text.
DiffyMerge(base, left, right, marker_len) ==
    IF left = right THEN [ok |-> TRUE, text |-> left]
    ELSE IF left = base THEN [ok |-> TRUE, text |-> right]
    ELSE IF right = base THEN [ok |-> TRUE, text |-> left]
    ELSE [ok |-> FALSE,
          text |-> Repeat("<", marker_len) \o OursLabel \o left
                   \o Repeat("|", marker_len) \o OriginalLabel \o base
                   \o Repeat("=", marker_len) \o <<NL>> \o right
                   \o Repeat(">", marker_len) \o TheirsLabel]

\* create_merge
CreateMerge(base_contents, left_contents, right_contents) ==
    LET markers == MakeConflictMarkers(base_contents, left_contents,
                                       right_contents)
        merge == DiffyMerge(base_contents, left_contents, right_contents,
                            Len(markers[4]))
    IN IF merge.ok THEN << >>
       ELSE ParseLines(StateEmpty, << >>, SplitInclusive(merge.text), markers)

\* create_merge_file after the three reads: an error or the File
\* a plausible slip: binary inputs are reported before absent ones
CreateMergeFile_BinaryFirst(base, base_path, left, left_path, right, right_path, output_path) ==
    CASE base.contents.tag = "Binary" ->
            [err |-> "BinaryMergeFile", path |-> base_path]
      [] left.contents.tag = "Binary" ->
            [err |-> "BinaryMergeFile", path |-> left_path]
      [] right.contents.tag = "Binary" ->
            [err |-> "BinaryMergeFile", path |-> right_path]
      [] base.contents.tag = "Absent" ->
            [err |-> "MissingMergeFile", path |-> base_path]
      [] left.contents.tag = "Absent" ->
            [err |-> "MissingMergeFile", path |-> left_path]
      [] right.contents.tag = "Absent" ->
            [err |-> "MissingMergeFile", path |-> right_path]
      [] OTHER ->
            [err |-> "Ok",
             file |-> File(Some(base_path), output_path, left.file_mode,
                           CreateMerge(base.contents.contents,
                                       left.contents.contents,
                                       right.contents.contents))]

CreateMergeFile(base, base_path, left, left_path, right, right_path, output_path) ==
    CASE base.contents.tag = "Absent" ->
            [err |-> "MissingMergeFile", path |-> base_path]
      [] left.contents.tag = "Absent" ->
            [err |-> "MissingMergeFile", path |-> left_path]
      [] right.contents.tag = "Absent" ->
            [err |-> "MissingMergeFile", path |-> right_path]
      [] base.contents.tag = "Binary" ->
            [err |-> "BinaryMergeFile", path |-> base_path]
      [] left.contents.tag = "Binary" ->
            [err |-> "BinaryMergeFile", path |-> left_path]
      [] right.contents.tag = "Binary" ->
            [err |-> "BinaryMergeFile", path |-> right_path]
      [] OTHER ->
            [err |-> "Ok",
             file |-> File(Some(base_path), output_path, left.file_mode,
                           CreateMerge(base.contents.contents,
                                       left.contents.contents,
                                       right.contents.contents))]

(***************************************************************************)
(* types.rs: set_checked                                                   *)
(***************************************************************************)
RECURSIVE SetLinesChecked(_, _)
SetLinesChecked(lines, checked) ==
    IF lines = << >> THEN << >>
    ELSE <<[Head(lines) EXCEPT !.is_checked = checked]>>
         \o SetLinesChecked(Tail(lines), checked)

\* a Binary section keeps its checkbox
SectionSetChecked_SkipsBinary(s, checked) ==
    CASE s.tag = "Changed" ->
            [s EXCEPT !.lines = SetLinesChecked(s.lines, checked)]
      [] s.tag = "FileMode" -> [s EXCEPT !.is_checked = checked]
      [] OTHER -> s

\* Section::set_checked
SectionSetChecked(s, checked) ==
    CASE s.tag = "Unchanged" -> s
      [] s.tag = "Changed" ->
            [s EXCEPT !.lines = SetLinesChecked(s.lines, checked)]
      [] s.tag = "FileMode" -> [s EXCEPT !.is_checked = checked]
      [] s.tag = "Binary" -> [s EXCEPT !.is_checked = checked]

\* File::set_checked
FileSetChecked(f, checked) ==
    [f EXCEPT !.sections =
        [i \in 1..Len(f.sections) |-> SectionSetChecked(f.sections[i], checked)]]

(***************************************************************************)
(* types.rs: tristate                                                      *)
(***************************************************************************)
\* let mut seen_value = None; returned is the early `return Tristate::Partial`
TristateStart == [seen_value |-> None, returned |-> FALSE]

\* the first checkbox decides and a later disagreement is not noticed
SeeChecked_KeepsFirst(st, is_checked) ==
    IF st.seen_value = None
    THEN [st EXCEPT !.seen_value = Some(is_checked)]
    ELSE st

\* seen_value = match (seen_value, is_checked) { ... }
SeeChecked(st, is_checked) ==
    IF st.returned THEN st
    ELSE IF st.seen_value = None
    THEN [st EXCEPT !.seen_value = Some(is_checked)]
    ELSE IF st.seen_value = Some(is_checked) THEN st
    ELSE [st EXCEPT !.returned = TRUE]

\* for line in lines { ... }
RECURSIVE SeeLines(_, _)
SeeLines(st, lines) ==
    IF lines = << >> THEN st
    ELSE SeeLines(SeeChecked(st, Head(lines).is_checked), Tail(lines))

\* match section { ... }
SeeSection(st, s) ==
    CASE s.tag = "Unchanged" -> st
      [] s.tag = "Changed" -> SeeLines(st, s.lines)
      [] s.tag = "FileMode" -> SeeChecked(st, s.is_checked)
      [] s.tag = "Binary" -> SeeChecked(st, s.is_checked)

\* for section in sections { ... }
RECURSIVE SeeSections(_, _)
SeeSections(st, sections) ==
    IF sections = << >> THEN st
    ELSE SeeSections(SeeSection(st, Head(sections)), Tail(sections))

\* a plausible slip: no checkbox seen counts as all checked
TristateOf_NoneIsTrue(st) ==
    IF st.returned THEN "Partial"
    ELSE IF st.seen_value = Some(FALSE) THEN "False"
    ELSE "True"

\* match seen_value { Some(true) => True, None | Some(false) => False }
TristateOf(st) ==
    IF st.returned THEN "Partial"
    ELSE IF st.seen_value = Some(TRUE) THEN "True"
    ELSE "False"

\* Section::tristate
SectionTristate(s) == TristateOf(SeeSection(TristateStart, s))

\* File::tristate
FileTristate(f) == TristateOf(SeeSections(TristateStart, f.sections))

(***************************************************************************)
(* types.rs: toggle_all                                                    *)
(***************************************************************************)
\* a plausible slip: every line is checked instead of inverted
RECURSIVE ToggleLines_CheckAll(_)
ToggleLines_CheckAll(lines) ==
    IF lines = << >> THEN << >>
    ELSE <<[Head(lines) EXCEPT !.is_checked = TRUE]>>
         \o ToggleLines_CheckAll(Tail(lines))

RECURSIVE ToggleLines(_)
ToggleLines(lines) ==
    IF lines = << >> THEN << >>
    ELSE <<[Head(lines) EXCEPT !.is_checked = ~@]>> \o ToggleLines(Tail(lines))

\* only the changed lines are inverted
SectionToggleAll_LinesOnly(s) ==
    IF s.tag = "Changed" THEN [s EXCEPT !.lines = ToggleLines(s.lines)] ELSE s

\* Section::toggle_all
SectionToggleAll(s) ==
    CASE s.tag = "Unchanged" -> s
      [] s.tag = "Changed" -> [s EXCEPT !.lines = ToggleLines(s.lines)]
      [] s.tag = "FileMode" -> [s EXCEPT !.is_checked = ~@]
      [] s.tag = "Binary" -> [s EXCEPT !.is_checked = ~@]

\* File::toggle_all
FileToggleAll(f) ==
    [f EXCEPT !.sections =
        [i \in 1..Len(f.sections) |-> SectionToggleAll(f.sections[i])]]

(***************************************************************************)
(* lib.rs: paths, the Filesystem, process_opts                             *)
(***************************************************************************)
\* A path is the sequence of its components; PathBuf::new() is the empty one.
EmptyPath == << >>

\* Path::join, of a relative path
Join(root, path) == root \o path

\* Path::parent
Parent(path) ==
    IF path = << >> THEN None ELSE Some(SubSeq(path, 1, Len(path) - 1))

LeftPath == <<"left">>

RightPath == <<"right">>

BasePath == <<"base">>

OutputPath == <<"output">>

LeftRoot == <<"L">>

RightRoot == <<"R">>

\* the file names of the model, in the order of strings
NameOrder == <<"f", "g">>

\* the relative paths a directory can hold, as a walk may find them
RelPaths == << <<"g">>, <<"f">> >>

AllPaths ==
    {LeftPath, RightPath, BasePath, OutputPath}
    \cup {Join(root, RelPaths[i]) : root \in {LeftRoot, RightRoot},
                                    i \in 1..Len(RelPaths)}

\* struct Opts
Opts(dir_diff, left, right, base, output, read_only, dry_run) ==
    [dir_diff |-> dir_diff, left |-> left, right |-> right, base |-> base,
     output |-> output, read_only |-> read_only, dry_run |-> dry_run]

AbsentInfo == FileInfo(Absent, ContentsAbsent)

TextInfo(contents) == FileInfo(FILE_DEFAULT, ContentsText(contents))

BinaryInfo == FileInfo(FILE_DEFAULT, ContentsBinary(<<"h1">>, 3))

Exists(info) == info.contents.tag # "Absent"

\* the texts of a diffed file: lines of "a", complete or not, and empty lines
Texts == UNION {[1..k -> {"a", NL}] : k \in 0..MaxTextLen}

\* what left and right can be in a two-way diff
DiffInfos ==
    {AbsentInfo, BinaryInfo, FileInfo(FILE_EXEC, ContentsText(<<"a", NL>>))}
    \cup {TextInfo(t) : t \in Texts}

\* what a file of a diffed directory can be
DirInfos == {AbsentInfo, BinaryInfo, TextInfo(<<"a", NL>>), TextInfo(<<NL>>)}

\* what base, left and right can be in a merge: texts of at most one line
MergeInfos ==
    {AbsentInfo, BinaryInfo, TextInfo(<< >>), TextInfo(<<"a", NL>>),
     TextInfo(<<"b", NL>>)}

OutputInfos == {AbsentInfo, TextInfo(<<"b", NL>>)}

\* walk_dir: the BTreeSet of the relative paths of the files under dir
WalkDir(f, dir) ==
    {RelPaths[i] : i \in {j \in 1..Len(RelPaths) : Exists(f[Join(dir, RelPaths[j])])}}

\* the right root is not walked
ReadDirDiffPaths_LeftOnly(f, left, right) == WalkDir(f, left)

\* Filesystem::read_dir_diff_paths: left_files chained with right_files and
\* collected into one BTreeSet
ReadDirDiffPaths(f, left, right) == WalkDir(f, left) \cup WalkDir(f, right)

\* the order of file names as strings
NameRank(name) == CHOOSE k \in 1..Len(NameOrder) : NameOrder[k] = name

\* Ord of PathBuf: component by component
RECURSIVE PathLess(_, _)
PathLess(p, q) ==
    IF p = << >> THEN q # << >>
    ELSE IF q = << >> THEN FALSE
    ELSE IF Head(p) = Head(q) THEN PathLess(Tail(p), Tail(q))
    ELSE NameRank(Head(p)) < NameRank(Head(q))

\* `for display_path in display_paths`: a BTreeSet iterates in ascending order
RECURSIVE Ascending(_)
Ascending(paths) ==
    IF paths = {} THEN << >>
    ELSE LET least == CHOOSE p \in paths : \A q \in paths : q = p \/ PathLess(p, q)
         IN <<least>> \o Ascending(paths \ {least})

\* the loop of the dir-diff arm: the lists of Files it can build
RECURSIVE DirDiffFiles(_, _, _, _)
DirDiffFiles(f, left, right, display_paths) ==
    IF display_paths = << >> THEN {<< >>}
    ELSE LET d == Head(display_paths)
         IN {<<x>> \o rest :
                x \in CreateFile(f[Join(left, d)], d, f[Join(right, d)], d),
                rest \in DirDiffFiles(f, left, right, Tail(display_paths))}

\* process_opts when every read succeeds: the results it can return
ProcessOptsResults(f, o) ==
    CASE ~o.dir_diff /\ o.base = None ->
            {[err |-> "Ok", files |-> <<x>>, write_root |-> EmptyPath,
              path |-> None]
             : x \in CreateFile(f[o.left], o.left, f[o.right], o.right)}
      [] o.dir_diff /\ o.base = None ->
            {[err |-> "Ok", files |-> xs, write_root |-> o.right, path |-> None]
             : xs \in DirDiffFiles(f, o.left, o.right,
                                   Ascending(ReadDirDiffPaths(f, o.left, o.right)))}
      [] ~o.dir_diff /\ o.base # None /\ o.output # None ->
            LET r == CreateMergeFile(f[o.base[1]], o.base[1], f[o.left], o.left,
                                     f[o.right], o.right, o.output[1])
            IN IF r.err = "Ok"
               THEN {[err |-> "Ok", files |-> <<r.file>>, write_root |-> EmptyPath,
                      path |-> None]}
               ELSE {[err |-> r.err, files |-> << >>, write_root |-> EmptyPath,
                      path |-> Some(r.path)]}

\* the errors a failing read of process_opts returns
ReadErrors(o) == IF o.dir_diff THEN {"WalkDir", "ReadFile"} ELSE {"ReadFile"}

\* RealFilesystem::remove_file
RemoveFile(f, path) == [f EXCEPT ![path] = AbsentInfo]

\* RealFilesystem::write_file: fs::write keeps the mode of a file that exists
WriteFile(f, path, contents) ==
    [f EXCEPT ![path] =
        FileInfo(IF Exists(f[path]) THEN f[path].file_mode ELSE FILE_DEFAULT,
                 ContentsText(contents))]

\* a plausible slip: the two arguments of the copy are taken the other way
CopyFile_OntoOld(f, old_path, new_path) == [f EXCEPT ![old_path] = f[new_path]]

\* RealFilesystem::copy_file
CopyFile(f, old_path, new_path) == [f EXCEPT ![new_path] = f[old_path]]

\* fs::copy of a file onto itself: the file is left alone or truncated,
\* depending on the platform
CopyFileOutcomes(f, old_path, new_path) ==
    IF old_path = new_path
    THEN {f, [f EXCEPT ![new_path] =
                 FileInfo(f[new_path].file_mode, ContentsText(EmptyStr))]}
    ELSE {CopyFile(f, old_path, new_path)}

(***************************************************************************)
(* Idle values: what a specification leaves the other's variables at       *)
(***************************************************************************)
NoSel == [tag |-> "NoSel"]

SelIdle == file = File(None, << >>, Absent, << >>) /\ sel = NoSel

NoCall == [pc |-> "idle"]

MergeIdle == marker_call = NoCall /\ merge_call = NoCall

NoRecorder == [pc |-> "idle"]

NoEvent == [event |-> "none"]

UiIdle == recorder = NoRecorder /\ last_event = NoEvent

NoOpts == Opts(FALSE, << >>, << >>, None, None, FALSE, FALSE)

RunIdle ==
    /\ opts = NoOpts
    /\ fs = << >> /\ fs0 = << >> /\ files = << >> /\ write_root = << >>
    /\ pc = "idle" /\ file_idx = 0 /\ recorded = "none" /\ ops = << >>
    /\ result = "none" /\ merge_error_path = None

(***************************************************************************)
(* SpecSelect: a caller builds a File (the fields of File and Section are  *)
(* public), sets checkboxes, and calls get_selected_contents               *)
(***************************************************************************)
DisplayPath == <<"right">>

\* line texts used by the builder, one per kind of line
UnchangedText == <<"u", NL>>

AddedText == <<"a", NL>>

RemovedText == <<"r", NL>>

RECURSIVE NumLines(_)
NumLines(sections) ==
    IF sections = << >> THEN 0
    ELSE (IF Head(sections).tag \in {"Unchanged", "Changed"}
          THEN Len(Head(sections).lines) ELSE 0) + NumLines(Tail(sections))

FileSize(f) == Len(f.sections) + NumLines(f.sections)

NewSections ==
    {SectionUnchanged(<< >>), SectionChanged(<< >>)}
    \cup {SectionFileMode(c, m) : c \in BOOLEAN, m \in {Absent, FILE_DEFAULT}}
    \cup {SectionBinary(c, Some(<<"old">>), Some(<<"new">>)) : c \in BOOLEAN}

InitSelect ==
    /\ UiIdle
    /\ \E m \in {Absent, FILE_DEFAULT} :
          file = File(None, DisplayPath, m, << >>)
    /\ sel = NoSel
    /\ RunIdle
    /\ MergeIdle

\* sections.push(section)
AddSection ==
    /\ FileSize(file) < MaxSize
    /\ \E s \in NewSections :
          file' = [file EXCEPT !.sections = Append(@, s)]
    /\ sel' = NoSel
    /\ UNCHANGED <<uiVars, runVars, mergeVars>>

\* lines.push(line) on the last section, an Unchanged one
AddUnchangedLine ==
    /\ FileSize(file) < MaxSize
    /\ file.sections # << >>
    /\ file.sections[Len(file.sections)].tag = "Unchanged"
    /\ file' = [file EXCEPT !.sections[Len(file.sections)].lines =
                                Append(@, UnchangedText)]
    /\ sel' = NoSel
    /\ UNCHANGED <<uiVars, runVars, mergeVars>>

\* lines.push(line) on the last section, a Changed one
AddChangedLine ==
    /\ FileSize(file) < MaxSize
    /\ file.sections # << >>
    /\ file.sections[Len(file.sections)].tag = "Changed"
    /\ \E c \in BOOLEAN, ct \in {Added, Removed} :
          file' = [file EXCEPT !.sections[Len(file.sections)].lines =
                      Append(@, SectionChangedLine(c, ct,
                          IF ct = Added THEN AddedText ELSE RemovedText))]
    /\ sel' = NoSel
    /\ UNCHANGED <<uiVars, runVars, mergeVars>>

CallGetSelectedContents ==
    /\ sel = NoSel
    /\ sel' = GetSelectedContents(file)
    /\ UNCHANGED <<uiVars, file, runVars, mergeVars>>

NextSelect ==
    \/ AddSection
    \/ AddUnchangedLine
    \/ AddChangedLine
    \/ CallGetSelectedContents

SpecSelect == InitSelect /\ [][NextSelect]_vars

(***************************************************************************)
(* SpecChecked: a caller builds a File as in SpecSelect and calls          *)
(* tristate, set_checked and toggle_all on the file or on one section      *)
(***************************************************************************)
BuildSection == FileSize(file) < MaxItems /\ AddSection

BuildUnchangedLine == FileSize(file) < MaxItems /\ AddUnchangedLine

BuildChangedLine == FileSize(file) < MaxItems /\ AddChangedLine

\* file.tristate() and section.tristate() of every section
CallTristate ==
    /\ sel' = [tag |-> "tristate",
               file |-> FileTristate(file),
               sections |-> [i \in 1..Len(file.sections) |->
                                SectionTristate(file.sections[i])]]
    /\ UNCHANGED <<uiVars, file, runVars, mergeVars>>

\* file.set_checked(checked); target 0 is the file
CallFileSetChecked ==
    /\ \E checked \in BOOLEAN :
          /\ file' = FileSetChecked(file, checked)
          /\ sel' = [tag |-> "set_checked", target |-> 0, checked |-> checked]
    /\ UNCHANGED <<uiVars, runVars, mergeVars>>

\* file.sections[i].set_checked(checked)
CallSectionSetChecked ==
    /\ \E i \in 1..Len(file.sections), checked \in BOOLEAN :
          /\ file' = [file EXCEPT !.sections[i] = SectionSetChecked(@, checked)]
          /\ sel' = [tag |-> "set_checked", target |-> i, checked |-> checked]
    /\ UNCHANGED <<uiVars, runVars, mergeVars>>

\* file.toggle_all()
CallFileToggleAll ==
    /\ file' = FileToggleAll(file)
    /\ sel' = [tag |-> "toggle_all", target |-> 0, before |-> file]
    /\ UNCHANGED <<uiVars, runVars, mergeVars>>

\* file.sections[i].toggle_all()
CallSectionToggleAll ==
    /\ \E i \in 1..Len(file.sections) :
          /\ file' = [file EXCEPT !.sections[i] = SectionToggleAll(@)]
          /\ sel' = [tag |-> "toggle_all", target |-> i, before |-> file]
    /\ UNCHANGED <<uiVars, runVars, mergeVars>>

NextChecked ==
    \/ BuildSection
    \/ BuildUnchangedLine
    \/ BuildChangedLine
    \/ CallTristate
    \/ CallFileSetChecked
    \/ CallSectionSetChecked
    \/ CallFileToggleAll
    \/ CallSectionToggleAll

SpecChecked == InitSelect /\ [][NextChecked]_vars

(***************************************************************************)
(* SpecMarkers: a call of make_conflict_markers, one step per iteration of  *)
(* its loop.  The inputs are runs of one marker character, so that their   *)
(* concatenation holds markers of the first lengths tried.                 *)
(***************************************************************************)
MarkerChars == {"<", "|", "=", ">"}

RunTexts == {Repeat(c, n) : c \in MarkerChars, n \in 0..MaxRun}

\* `[base, left, right].concat()`
All(call) == call.base \o call.left \o call.right

InitMarkers ==
    /\ UiIdle
    /\ SelIdle
    /\ RunIdle
    /\ \E base \in RunTexts, left \in RunTexts, right \in RunTexts :
          marker_call = [base |-> base, left |-> left, right |-> right,
                         len |-> InitialMarkerLen, pc |-> "loop",
                         markers |-> None]
    /\ merge_call = NoCall

\* one iteration of `loop` that does not return: `len += 1`
MarkersRetry ==
    /\ marker_call.pc = "loop"
    /\ MarkerOccurs(All(marker_call), marker_call.len)
    /\ marker_call' = [marker_call EXCEPT !.len = @ + 1]
    /\ UNCHANGED <<uiVars, selVars, runVars, merge_call>>

\* the iteration that returns the four markers
MarkersReturn ==
    /\ marker_call.pc = "loop"
    /\ ~MarkerOccurs(All(marker_call), marker_call.len)
    /\ marker_call' = [marker_call EXCEPT
                          !.pc = "returned",
                          !.markers = Some(MarkersOfLen(marker_call.len))]
    /\ UNCHANGED <<uiVars, selVars, runVars, merge_call>>

NextMarkers ==
    \/ MarkersRetry
    \/ MarkersReturn

SpecMarkers == InitMarkers /\ [][NextMarkers]_vars

\* the call runs on: the loop is straight-line code with no blocking call
SpecMarkersFair == SpecMarkers /\ WF_vars(NextMarkers)

(***************************************************************************)
(* SpecMerge: a call of create_merge.  diffy's merge is a library call     *)
(* whose result the parser must cope with: it returns a clean merge, or a  *)
(* conflicted text that is any sequence of at most MaxParse lines, each a  *)
(* line of an input or a marker line of the requested length.  The         *)
(* conflicted text is read one line per step.                              *)
(***************************************************************************)
\* the inputs of the merge: three texts that differ, one of which may hold a
\* line that looks like a marker of the first length tried
MergeBases == {<< >>}

MergeLefts == {<<"a", NL>>}

MergeRights == {<<"b", NL>>, Repeat("<", InitialMarkerLen) \o <<NL>>}

\* the lines of a text
LinesOf(contents) ==
    {SplitInclusive(contents)[i] : i \in 1..Len(SplitInclusive(contents))}

\* the lines a conflicted text is made of
ConflictLines(call) ==
    {call.markers[1] \o OursLabel, call.markers[2] \o OriginalLabel,
     call.markers[3] \o <<NL>>, call.markers[4] \o TheirsLabel}
    \cup LinesOf(call.base_contents) \cup LinesOf(call.left_contents)
    \cup LinesOf(call.right_contents)

\* create_merge is entered: make_conflict_markers has returned
InitMerge ==
    /\ UiIdle
    /\ SelIdle
    /\ RunIdle
    /\ marker_call = NoCall
    /\ \E base \in MergeBases, left \in MergeLefts, right \in MergeRights :
          merge_call = [base_contents |-> base, left_contents |-> left,
                        right_contents |-> right,
                        markers |-> MakeConflictMarkers(base, left, right),
                        state |-> StateEmpty, sections |-> << >>,
                        lines |-> << >>, pc |-> "merge"]

\* `Ok(_) => return Default::default()`
MergeClean ==
    /\ merge_call.pc = "merge"
    /\ merge_call' = [merge_call EXCEPT !.pc = "returned"]
    /\ UNCHANGED <<uiVars, selVars, runVars, marker_call>>

\* `Err(conflicted_text) => conflicted_text`
MergeConflict ==
    /\ merge_call.pc = "merge"
    /\ merge_call' = [merge_call EXCEPT !.pc = "parse"]
    /\ UNCHANGED <<uiVars, selVars, runVars, marker_call>>

\* one iteration of `for line in conflicted_text.split_inclusive('\n')`
ParseLine ==
    /\ merge_call.pc = "parse"
    /\ Len(merge_call.lines) < MaxParse
    /\ \E line \in ConflictLines(merge_call) :
          LET r == ParseStep(merge_call.state, line, merge_call.markers)
          IN merge_call' = [merge_call EXCEPT
                               !.state = r.state,
                               !.sections = @ \o r.section,
                               !.lines = Append(@, line)]
    /\ UNCHANGED <<uiVars, selVars, runVars, marker_call>>

\* the text is read: `match state` and `sections`
ParseReturn ==
    /\ merge_call.pc = "parse"
    /\ merge_call' = [merge_call EXCEPT
                         !.sections = @ \o ParseEnd(merge_call.state),
                         !.pc = "returned"]
    /\ UNCHANGED <<uiVars, selVars, runVars, marker_call>>

NextMerge ==
    \/ MergeClean
    \/ MergeConflict
    \/ ParseLine
    \/ ParseReturn

SpecMerge == InitMerge /\ [][NextMerge]_vars

(***************************************************************************)
(* Spec: scm-diff-editor's `run`.  The filesystem holds the files named on *)
(* the command line; every filesystem call of apply_changes is a step that *)
(* succeeds or fails, logged in `ops`.                                     *)
(***************************************************************************)
Filesystem(assigned) ==
    [p \in AllPaths |-> IF p \in DOMAIN assigned THEN assigned[p] ELSE AbsentInfo]

DiffFilesystems ==
    {Filesystem(LeftPath :> l @@ RightPath :> r) : l \in DiffInfos, r \in DiffInfos}

DirDiffFilesystems ==
    {Filesystem(Join(LeftRoot, <<"f">>) :> lf @@ Join(LeftRoot, <<"g">>) :> lg
                @@ Join(RightRoot, <<"f">>) :> rf @@ Join(RightRoot, <<"g">>) :> rg)
     : lf \in DirInfos, lg \in DirInfos, rf \in DirInfos, rg \in DirInfos}

MergeFilesystems ==
    {Filesystem(BasePath :> b @@ LeftPath :> l @@ RightPath :> r @@ OutputPath :> o)
     : b \in MergeInfos, l \in MergeInfos, r \in MergeInfos, o \in OutputInfos}

Init ==
    /\ UiIdle
    /\ SelIdle
    /\ MergeIdle
    /\ \E read_only \in BOOLEAN, dry_run \in BOOLEAN :
          \/ /\ opts = Opts(FALSE, LeftPath, RightPath, None, None, read_only, dry_run)
             /\ fs \in DiffFilesystems
          \/ /\ opts = Opts(TRUE, LeftRoot, RightRoot, None, None, read_only, dry_run)
             /\ fs \in DirDiffFilesystems
          \/ /\ opts = Opts(FALSE, LeftPath, RightPath, Some(BasePath),
                            Some(OutputPath), read_only, dry_run)
             /\ fs \in MergeFilesystems
    /\ fs0 = fs
    /\ files = << >> /\ write_root = EmptyPath
    /\ pc = "process_opts" /\ file_idx = 0 /\ recorded = "none"
    /\ ops = << >> /\ result = "none" /\ merge_error_path = None

\* run: `process_opts(&filesystem, &opts)?`
ProcessOpts ==
    /\ pc = "process_opts"
    /\ \E r \in ProcessOptsResults(fs, opts) :
          /\ files' = r.files
          /\ write_root' = r.write_root
          /\ pc' = IF r.err = "Ok" THEN "recorder" ELSE "done"
          /\ result' = IF r.err = "Ok" THEN result ELSE r.err
          /\ merge_error_path' = r.path
    /\ UNCHANGED <<uiVars, selVars, mergeVars, opts, fs, fs0, file_idx, recorded, ops>>

\* run: a read of process_opts fails
ProcessOptsFail ==
    /\ pc = "process_opts"
    /\ \E err \in ReadErrors(opts) : result' = err
    /\ pc' = "done"
    /\ UNCHANGED <<uiVars, selVars, mergeVars, merge_error_path, opts, fs, fs0, files, write_root, file_idx, recorded, ops>>

\* the recorder takes every state for an editable one
IsReadOnly_Never == FALSE

\* run: `RecordState { is_read_only: opts.read_only, .. }`
IsReadOnly == opts.read_only

\* for file in files { ... }, folding the checkboxes of every file
RECURSIVE SeeFiles(_, _)
SeeFiles(st, fileList) ==
    IF fileList = << >> THEN st
    ELSE SeeFiles(SeeSections(st, Head(fileList).sections), Tail(fileList))

\* state.tristate(): the tristate of the checkboxes of all files
StateTristate(fileList) == TristateOf(SeeFiles(TristateStart, fileList))

\* the recorder: the user toggles the checkbox of a section or of a line
\* (ToggleItem, ToggleItemAndAdvance, Click on a checkbox)
RecorderToggleItem ==
    /\ pc = "recorder"
    /\ ~IsReadOnly
    /\ \E i \in 1..Len(files) : \E j \in 1..Len(files[i].sections) :
          LET s == files[i].sections[j]
          IN \/ /\ s.tag \in {"FileMode", "Binary"}
                /\ files' = [files EXCEPT ![i].sections[j].is_checked = ~@]
             \/ /\ s.tag = "Changed"
                /\ \E k \in 1..Len(s.lines) :
                      files' = [files EXCEPT
                                   ![i].sections[j].lines[k].is_checked = ~@]
    /\ UNCHANGED <<uiVars, selVars, mergeVars, merge_error_path, opts, fs, fs0, write_root, pc, file_idx, recorded,
                   ops, result>>

\* the recorder: every checkbox of every file is checked
RecorderSelectAll ==
    /\ pc = "recorder"
    /\ ~IsReadOnly
    /\ files' = [i \in 1..Len(files) |-> FileSetChecked(files[i], TRUE)]
    /\ UNCHANGED <<uiVars, selVars, mergeVars, merge_error_path, opts, fs, fs0, write_root, pc, file_idx, recorded,
                   ops, result>>

\* the recorder: ToggleAll inverts every checkbox of every file
RecorderToggleAll ==
    /\ pc = "recorder"
    /\ ~IsReadOnly
    /\ files' = [i \in 1..Len(files) |-> FileToggleAll(files[i])]
    /\ UNCHANGED <<uiVars, selVars, mergeVars, merge_error_path, opts, fs, fs0, write_root, pc, file_idx, recorded,
                   ops, result>>

\* the recorder: ToggleAllUniform sets every checkbox to
\* not (state.tristate() == True)
RecorderToggleAllUniform ==
    /\ pc = "recorder"
    /\ ~IsReadOnly
    /\ files' = [i \in 1..Len(files) |->
                    FileSetChecked(files[i], StateTristate(files) # "True")]
    /\ UNCHANGED <<uiVars, selVars, mergeVars, merge_error_path, opts, fs, fs0, write_root, pc, file_idx, recorded,
                   ops, result>>

\* run: `Ok(state)`, then the choice between print_dry_run and apply_changes
RecorderAccept ==
    /\ pc = "recorder"
    /\ recorded' = "Ok"
    /\ pc' = IF opts.dry_run THEN "print_dry_run" ELSE "apply_changes"
    /\ UNCHANGED <<uiVars, selVars, mergeVars, merge_error_path, opts, fs, fs0, files, write_root, file_idx, ops, result>>

\* run: `Err(RecordError::Cancelled) => Err(Error::Cancelled)`
RecorderCancel ==
    /\ pc = "recorder"
    /\ recorded' = "Cancelled"
    /\ pc' = "done"
    /\ result' = "Cancelled"
    /\ UNCHANGED <<uiVars, selVars, mergeVars, merge_error_path, opts, fs, fs0, files, write_root, file_idx, ops>>

\* run: `Err(err) => Err(Error::Record { source: err })`
RecorderFail ==
    /\ pc = "recorder"
    /\ recorded' = "Err"
    /\ pc' = "done"
    /\ result' = "Record"
    /\ UNCHANGED <<uiVars, selVars, mergeVars, merge_error_path, opts, fs, fs0, files, write_root, file_idx, ops>>

\* print_dry_run: the lines printed for one file, without the paths, modes
\* and contents they show
DryRunReport(f) ==
    LET selected == GetSelectedContents(f).selected
        print_file_mode_change == f.file_mode # selected.file_mode
    IN IF selected.file_mode = Absent THEN <<"Would delete file">>
       ELSE (IF print_file_mode_change THEN <<"Would change file mode">> ELSE << >>)
            \o CASE selected.contents.tag = "Unchanged" ->
                       IF print_file_mode_change THEN << >>
                       ELSE <<"Would leave file unchanged">>
                  [] selected.contents.tag = "Binary" -> <<"Would update binary file">>
                  [] selected.contents.tag = "Text" -> <<"Would update text file">>

\* run: print_dry_run only prints; run returns Err(Error::DryRun)
PrintDryRun ==
    /\ pc = "print_dry_run"
    /\ pc' = "done"
    /\ result' = "DryRun"
    /\ UNCHANGED <<uiVars, selVars, mergeVars, merge_error_path, opts, fs, fs0, files, write_root, file_idx, recorded, ops>>

(***************************************************************************)
(* apply_changes, one step per filesystem call                             *)
(***************************************************************************)
\* a plausible slip: the read-only check is left out
ApplySkipped_Never(o) == FALSE

\* `if is_read_only { return Ok(()); }`
ApplySkipped(o) == o.read_only

\* a plausible slip: the result of a filesystem call is dropped
Propagate_Ignored(ok, next_pc) == next_pc

\* the `?` after a filesystem call: an Err returns from apply_changes
Propagate(ok, next_pc) == IF ok THEN next_pc ELSE "done"

\* an entry of the log of filesystem calls: the call, its path, its other
\* argument if it has one, the file of the loop it was issued for, its result
Op(op, path, arg, idx, ok) ==
    [op |-> op, path |-> path, arg |-> arg, file |-> idx, ok |-> ok]

\* `for file in files`: the file of the iteration and what is selected of it
CurFile == files[file_idx]

FilePath == Join(write_root, CurFile.path)

SelectedChanges == GetSelectedContents(CurFile).selected

\* the loop is at `match contents` for the current file
AtMatchContents ==
    \/ pc = "contents"
    \/ /\ pc = "file" /\ file_idx <= Len(files)
       /\ SelectedChanges.file_mode # Absent

\* entry of apply_changes
ApplyChanges ==
    /\ pc = "apply_changes"
    /\ IF ApplySkipped(opts)
       THEN pc' = "done" /\ result' = "Ok" /\ file_idx' = file_idx
       ELSE pc' = "file" /\ result' = result /\ file_idx' = 1
    /\ UNCHANGED <<uiVars, selVars, mergeVars, merge_error_path, opts, fs, fs0, files, write_root, recorded, ops>>

\* `if file_mode == FileMode::Absent { filesystem.remove_file(&file_path)?; }`
ApplyRemoveFile ==
    /\ pc = "file" /\ file_idx <= Len(files)
    /\ SelectedChanges.file_mode = Absent
    /\ \E ok \in BOOLEAN :
          /\ ops' = Append(ops, Op("remove_file", FilePath, None, file_idx, ok))
          /\ fs' = IF ok THEN RemoveFile(fs, FilePath) ELSE fs
          /\ pc' = Propagate(ok, "contents")
          /\ result' = IF ok THEN result ELSE "RemoveFile"
    /\ UNCHANGED <<uiVars, selVars, mergeVars, merge_error_path, opts, fs0, files, write_root, file_idx, recorded>>

\* `SelectedContents::Unchanged => {}`
ApplyUnchanged ==
    /\ AtMatchContents
    /\ SelectedChanges.contents.tag = "Unchanged"
    /\ pc' = "file"
    /\ file_idx' = file_idx + 1
    /\ UNCHANGED <<uiVars, selVars, mergeVars, merge_error_path, opts, fs, fs0, files, write_root, recorded, ops, result>>

\* `SelectedContents::Binary { .. } => filesystem.copy_file(&old_path, &new_path)?`
ApplyCopyFile ==
    /\ AtMatchContents
    /\ SelectedChanges.contents.tag = "Binary"
    /\ LET new_path == FilePath
           old_path == IF CurFile.old_path # None THEN CurFile.old_path[1]
                       ELSE new_path
       IN \E ok \in (IF Exists(fs[old_path]) THEN BOOLEAN ELSE {FALSE}) :
             /\ ops' = Append(ops, Op("copy_file", new_path, Some(old_path),
                                      file_idx, ok))
             /\ IF ok THEN fs' \in CopyFileOutcomes(fs, old_path, new_path)
                ELSE fs' = fs
             /\ pc' = Propagate(ok, "file")
             /\ file_idx' = IF ok THEN file_idx + 1 ELSE file_idx
             /\ result' = IF ok THEN result ELSE "CopyFile"
    /\ UNCHANGED <<uiVars, selVars, mergeVars, merge_error_path, opts, fs0, files, write_root, recorded>>

\* `SelectedContents::Text { .. }`: `filesystem.create_dir_all(parent_dir)?`
ApplyCreateDirAll ==
    /\ AtMatchContents
    /\ SelectedChanges.contents.tag = "Text"
    /\ Parent(FilePath) # None
    /\ \E ok \in BOOLEAN :
          /\ ops' = Append(ops, Op("create_dir_all", Parent(FilePath)[1], None,
                                   file_idx, ok))
          /\ pc' = Propagate(ok, "write")
          /\ result' = IF ok THEN result ELSE "CreateDirAll"
    /\ UNCHANGED <<uiVars, selVars, mergeVars, merge_error_path, opts, fs, fs0, files, write_root, file_idx, recorded>>

\* `SelectedContents::Text { contents }`: `filesystem.write_file(..)?`
ApplyWriteFile ==
    /\ \/ pc = "write"
       \/ /\ AtMatchContents
          /\ SelectedChanges.contents.tag = "Text"
          /\ Parent(FilePath) = None
    /\ \E ok \in BOOLEAN :
          /\ ops' = Append(ops, Op("write_file", FilePath,
                                   Some(SelectedChanges.contents.contents),
                                   file_idx, ok))
          /\ fs' = IF ok THEN WriteFile(fs, FilePath, SelectedChanges.contents.contents)
                   ELSE fs
          /\ pc' = Propagate(ok, "file")
          /\ file_idx' = IF ok THEN file_idx + 1 ELSE file_idx
          /\ result' = IF ok THEN result ELSE "WriteFile"
    /\ UNCHANGED <<uiVars, selVars, mergeVars, merge_error_path, opts, fs0, files, write_root, recorded>>

\* the loop is over: `Ok(())`
ApplyReturn ==
    /\ pc = "file" /\ file_idx > Len(files)
    /\ pc' = "done"
    /\ result' = "Ok"
    /\ UNCHANGED <<uiVars, selVars, mergeVars, merge_error_path, opts, fs, fs0, files, write_root, file_idx, recorded, ops>>

Next ==
    \/ ProcessOpts
    \/ ProcessOptsFail
    \/ RecorderToggleItem
    \/ RecorderSelectAll
    \/ RecorderToggleAll
    \/ RecorderToggleAllUniform
    \/ RecorderAccept
    \/ RecorderCancel
    \/ RecorderFail
    \/ PrintDryRun
    \/ ApplyChanges
    \/ ApplyRemoveFile
    \/ ApplyUnchanged
    \/ ApplyCopyFile
    \/ ApplyCreateDirAll
    \/ ApplyWriteFile
    \/ ApplyReturn

Spec == Init /\ [][Next]_vars

(***************************************************************************)
(* SpecRecorder: the Recorder of scm-record handling input events.         *)
(* ui.rs is not among the sources: each handler follows what the tests of  *)
(* tests/test_scm_record.rs show of it and, where no test decides, the     *)
(* words of the specification.                                             *)
(***************************************************************************)
\* SelectionKey::None, File, Section, Line
KeyNone == [tag |-> "None", file_idx |-> 0, section_idx |-> 0, line_idx |-> 0]

FileKey(i) == [tag |-> "File", file_idx |-> i, section_idx |-> 0, line_idx |-> 0]

SectionKey(i, j) == [tag |-> "Section", file_idx |-> i, section_idx |-> j, line_idx |-> 0]

LineKey(i, j, k) == [tag |-> "Line", file_idx |-> i, section_idx |-> j, line_idx |-> k]

RECURSIVE Flatten(_)
Flatten(seqs) == IF seqs = << >> THEN << >> ELSE Head(seqs) \o Flatten(Tail(seqs))

\* Section::is_editable
IsEditable(s) == s.tag \in {"Changed", "FileMode", "Binary"}

\* the key of a section and, when the section is shown open, of its lines;
\* an Unchanged section has no key
SectionKeys(fileList, shown, i, j) ==
    LET s == fileList[i].sections[j]
    IN IF ~IsEditable(s) THEN << >>
       ELSE <<SectionKey(i, j)>>
            \o (IF s.tag = "Changed" /\ SectionKey(i, j) \in shown
                THEN [k \in 1..Len(s.lines) |-> LineKey(i, j, k)]
                ELSE << >>)

\* the key of a file and, when the file is shown open, of what is below it
FileKeys(fileList, shown, i) ==
    <<FileKey(i)>>
    \o (IF FileKey(i) \in shown
        THEN Flatten([j \in 1..Len(fileList[i].sections) |->
                         SectionKeys(fileList, shown, i, j)])
        ELSE << >>)

\* the keys of the sections: they are expanded when the recorder starts
AllSectionKeys(fileList) ==
    UNION {{SectionKey(i, j) : j \in {n \in 1..Len(fileList[i].sections) :
                                         IsEditable(fileList[i].sections[n])}}
           : i \in 1..Len(fileList)}

\* the items that can be expanded and collapsed: files and sections
Collapsible(fileList) ==
    {FileKey(i) : i \in 1..Len(fileList)} \cup AllSectionKeys(fileList)

\* the addressable items on display, in tree order
VisibleKeys(fileList, expanded_items) ==
    Flatten([i \in 1..Len(fileList) |-> FileKeys(fileList, expanded_items, i)])

\* the position of a key in a list of keys, 0 when it is not there
IndexOfKey(keys, key) ==
    IF \E n \in 1..Len(keys) : keys[n] = key
    THEN CHOOSE n \in 1..Len(keys) : keys[n] = key
    ELSE 0

\* the nearest item on display at or above the key
VisibleAncestor(key, expanded_items) ==
    IF key.tag \in {"Section", "Line"} /\ FileKey(key.file_idx) \notin expanded_items
    THEN FileKey(key.file_idx)
    ELSE IF key.tag = "Line"
            /\ SectionKey(key.file_idx, key.section_idx) \notin expanded_items
    THEN SectionKey(key.file_idx, key.section_idx)
    ELSE key

\* toggling a file or a section: unchecked becomes checked and checked
\* unchecked; no test decides what a Partial one becomes
ToggledValues(tristate) ==
    IF tristate = "Partial" THEN BOOLEAN ELSE {tristate = "False"}

\* the files after the item of the key was toggled
ToggleKey(fileList, key) ==
    CASE key.tag = "File" ->
            {[fileList EXCEPT ![key.file_idx] = FileSetChecked(@, checked)]
             : checked \in ToggledValues(FileTristate(fileList[key.file_idx]))}
      [] key.tag = "Section" ->
            {[fileList EXCEPT ![key.file_idx].sections[key.section_idx] =
                                 SectionSetChecked(@, checked)]
             : checked \in ToggledValues(SectionTristate(
                   fileList[key.file_idx].sections[key.section_idx]))}
      [] key.tag = "Line" ->
            {[fileList EXCEPT ![key.file_idx].sections[key.section_idx]
                                 .lines[key.line_idx].is_checked = ~@]}
      [] OTHER -> {fileList}

\* the quit dialog counts the files with a selection and the commits with a
\* message
NumChangedFiles(state) ==
    Cardinality({i \in 1..Len(state.files) : FileTristate(state.files[i]) # "False"})

NumCommitMessages(state) ==
    Cardinality({c \in 1..Len(state.commits) : state.commits[c].message # None})

\* the quit dialog as it opens: the Quit button has the focus
QuitDialog(state) ==
    [focused_button |-> "Quit",
     num_commit_messages |-> NumCommitMessages(state),
     num_changed_files |-> NumChangedFiles(state)]

\* Recorder::new: the first file has the focus, files are collapsed and
\* sections expanded, no dialog is open
NewRecorder(state) ==
    [state |-> state,
     expanded_items |-> AllSectionKeys(state.files),
     selection_key |-> IF state.files = << >> THEN KeyNone ELSE FileKey(1),
     quit_dialog |-> None,
     pc |-> "running",
     result |-> "none"]

DialogOpen(r) == r.quit_dialog # None

\* FocusNext: the next item on display, none after the last
FocusNext(r) ==
    LET keys == VisibleKeys(r.state.files, r.expanded_items)
        n == IndexOfKey(keys, r.selection_key)
    IN IF n = 0 \/ n = Len(keys) THEN r
       ELSE [r EXCEPT !.selection_key = keys[n + 1]]

\* FocusNextSameKind: the next item on display of the kind of the focused one
FocusNextSameKind(r) ==
    LET keys == VisibleKeys(r.state.files, r.expanded_items)
        n == IndexOfKey(keys, r.selection_key)
        later == {m \in (n + 1)..Len(keys) : keys[m].tag = r.selection_key.tag}
    IN IF n = 0 \/ later = {} THEN r
       ELSE [r EXCEPT !.selection_key =
                         keys[CHOOSE m \in later : \A m2 \in later : m <= m2]]

\* FocusInner: a file is expanded and its first section takes the focus; a
\* section gives the focus to its first line; a line keeps it
FocusInner(r) ==
    LET key == r.selection_key
        below == VisibleKeys(r.state.files,
                             r.expanded_items \cup {FileKey(key.file_idx),
                                 SectionKey(key.file_idx, key.section_idx)})
        n == IndexOfKey(below, key)
    IN IF key.tag = "File"
       THEN [r EXCEPT !.expanded_items = @ \cup {key},
                      !.selection_key =
                          IF n < Len(below) /\ below[n + 1].tag = "Section"
                          THEN below[n + 1] ELSE @]
       ELSE IF key.tag = "Section" /\ n < Len(below) /\ below[n + 1].tag = "Line"
       THEN [r EXCEPT !.expanded_items = @ \cup {key},
                      !.selection_key = below[n + 1]]
       ELSE r

\* FocusOuter { fold_section }: a line gives the focus to its section; an
\* expanded section is collapsed when fold_section is set and gives the focus
\* to its file otherwise; an expanded file is collapsed
FocusOuter(r, fold_section) ==
    LET key == r.selection_key
    IN CASE key.tag = "Line" ->
               [r EXCEPT !.selection_key = SectionKey(key.file_idx, key.section_idx)]
         [] key.tag = "Section" ->
               IF fold_section /\ key \in r.expanded_items
               THEN [r EXCEPT !.expanded_items = @ \ {key}]
               ELSE [r EXCEPT !.selection_key = FileKey(key.file_idx)]
         [] key.tag = "File" -> [r EXCEPT !.expanded_items = @ \ {key}]
         [] OTHER -> r

\* ExpandItem: the focused file or section is expanded if it was collapsed
\* and collapsed if it was expanded
ExpandItem(r) ==
    IF r.selection_key.tag \in {"File", "Section"}
    THEN [r EXCEPT !.expanded_items =
                      IF r.selection_key \in @ THEN @ \ {r.selection_key}
                      ELSE @ \cup {r.selection_key}]
    ELSE r

\* ExpandAll: everything is expanded, unless everything was, and then
\* everything is collapsed and the focus moves up to an item on display
ExpandAll(r) ==
    LET expanded == IF r.expanded_items = Collapsible(r.state.files)
                    THEN {}
                    ELSE Collapsible(r.state.files)
    IN [r EXCEPT !.expanded_items = expanded,
                 !.selection_key = VisibleAncestor(@, expanded)]

\* the toggling events do nothing when is_read_only is set
Editable(r) == ~r.state.is_read_only

\* ToggleItem: the focused item is toggled
ToggleItem(r) ==
    IF Editable(r)
    THEN {[r EXCEPT !.state.files = fileList]
          : fileList \in ToggleKey(r.state.files, r.selection_key)}
    ELSE {r}

\* ToggleItemAndAdvance: the focused item is toggled and the focus moves to
\* the next item of the same kind
ToggleItemAndAdvance(r) == {FocusNextSameKind(r2) : r2 \in ToggleItem(r)}

\* ToggleAll: File::toggle_all on every file
ToggleAll(r) ==
    IF Editable(r)
    THEN [r EXCEPT !.state.files = [i \in 1..Len(@) |-> FileToggleAll(@[i])]]
    ELSE r

\* every checkbox is checked, whatever the state was
ToggleAllUniform_CheckAll(r) ==
    [r EXCEPT !.state.files = [i \in 1..Len(@) |-> FileSetChecked(@[i], TRUE)]]

\* ToggleAllUniform: File::set_checked on every file, with false when the
\* tristate of the whole state is True and with true otherwise
ToggleAllUniform(r) ==
    IF Editable(r)
    THEN [r EXCEPT !.state.files =
                      [i \in 1..Len(@) |->
                          FileSetChecked(@[i], StateTristate(r.state.files) # "True")]]
    ELSE r

\* Click on the checkbox of an item on display: the item is toggled if it had
\* the focus and takes the focus if it had not
ClickCheckbox(r, key) ==
    IF key = r.selection_key THEN ToggleItem(r)
    ELSE {[r EXCEPT !.selection_key = key]}

\* EditCommitMessage: the string the editor returns is the new message
EditCommitMessage(r, message) ==
    IF r.state.commits = << >> THEN r
    ELSE [r EXCEPT !.state.commits[1].message = Some(message)]

Quit(r, outcome) == [r EXCEPT !.pc = "done", !.result = outcome]

\* QuitAccept: the run ends with the state, unless the quit dialog is open
QuitAccept(r) == IF DialogOpen(r) THEN r ELSE Quit(r, "Ok")

\* QuitCancel: closes the quit dialog if it is open; else opens it if there
\* are changes and ends the run with RecordError::Cancelled if there are none
QuitCancel(r) ==
    IF DialogOpen(r) THEN [r EXCEPT !.quit_dialog = None]
    ELSE IF NumChangedFiles(r.state) > 0 \/ NumCommitMessages(r.state) > 0
    THEN [r EXCEPT !.quit_dialog = Some(QuitDialog(r.state))]
    ELSE Quit(r, "Cancelled")

\* a QuitInterrupt that cancels the run at once
QuitInterrupt_Immediate(r) == Quit(r, "Cancelled")

\* QuitInterrupt: ends the run with RecordError::Cancelled if the quit dialog
\* is open and opens it if not
QuitInterrupt(r) ==
    IF DialogOpen(r) THEN Quit(r, "Cancelled")
    ELSE [r EXCEPT !.quit_dialog = Some(QuitDialog(r.state))]

\* the quit dialog: FocusOuter focuses Go Back and FocusInner focuses Quit
DialogFocus(r, button) == [r EXCEPT !.quit_dialog[1].focused_button = button]

\* the quit dialog: ToggleItem and ToggleItemAndAdvance press the focused
\* button; Go Back closes the dialog and Quit ends the run
DialogActivate(r) ==
    IF r.quit_dialog[1].focused_button = "GoBack"
    THEN [r EXCEPT !.quit_dialog = None]
    ELSE Quit(r, "Cancelled")

\* the files a recorder of the model starts with: a text file with a context
\* line and two changed lines, and a new file with its FileMode section
ExampleFiles(c1, c2, c3) ==
    <<File(None, <<"foo">>, FILE_DEFAULT,
           <<SectionUnchanged(<<UnchangedText>>),
             SectionChanged(<<SectionChangedLine(c1, Removed, RemovedText),
                              SectionChangedLine(c2, Added, AddedText)>>)>>),
      File(None, <<"bar">>, Absent, <<SectionFileMode(c3, FILE_DEFAULT)>>)>>

\* nothing checked, partly checked
RecorderFiles == {ExampleFiles(FALSE, FALSE, FALSE), ExampleFiles(TRUE, FALSE, TRUE)}

\* one commit, without a message or with a message the caller supplied
RecorderCommits == {<<[message |-> None]>>, <<[message |-> Some("hello")]>>}

\* what the editor of the commit message returns
EditedMessages == {"edited"}

InitRecorder ==
    /\ SelIdle
    /\ RunIdle
    /\ MergeIdle
    /\ last_event = NoEvent
    /\ \E is_read_only \in BOOLEAN, commits \in RecorderCommits,
          fileList \in RecorderFiles :
          recorder = NewRecorder([is_read_only |-> is_read_only,
                                  commits |-> commits,
                                  files |-> fileList])

\* Recorder::run has not returned
Running == recorder.pc = "running"

\* the recorder handled the event: r2 is the Recorder after it
Handled(event, key, fold_section, r2) ==
    /\ recorder' = r2
    /\ last_event' = [event |-> event, key |-> key, fold_section |-> fold_section,
                      before |-> recorder]
    /\ UNCHANGED <<selVars, runVars, mergeVars>>

\* an event the quit dialog takes no notice of
Behind(r, r2) == IF DialogOpen(r) THEN r ELSE r2

EventFocusNext ==
    /\ Running
    /\ Handled("FocusNext", KeyNone, FALSE, Behind(recorder, FocusNext(recorder)))

EventFocusNextSameKind ==
    /\ Running
    /\ Handled("FocusNextSameKind", KeyNone, FALSE,
               Behind(recorder, FocusNextSameKind(recorder)))

EventFocusInner ==
    /\ Running
    /\ Handled("FocusInner", KeyNone, FALSE,
               IF DialogOpen(recorder) THEN DialogFocus(recorder, "Quit")
               ELSE FocusInner(recorder))

EventFocusOuter ==
    /\ Running
    /\ \E fold_section \in BOOLEAN :
           Handled("FocusOuter", KeyNone, fold_section,
                   IF DialogOpen(recorder) THEN DialogFocus(recorder, "GoBack")
                   ELSE FocusOuter(recorder, fold_section))

EventExpandItem ==
    /\ Running
    /\ Handled("ExpandItem", KeyNone, FALSE, Behind(recorder, ExpandItem(recorder)))

EventExpandAll ==
    /\ Running
    /\ Handled("ExpandAll", KeyNone, FALSE, Behind(recorder, ExpandAll(recorder)))

EventToggleItem ==
    /\ Running
    /\ \E r2 \in (IF DialogOpen(recorder) THEN {DialogActivate(recorder)}
                  ELSE ToggleItem(recorder)) :
           Handled("ToggleItem", KeyNone, FALSE, r2)

EventToggleItemAndAdvance ==
    /\ Running
    /\ \E r2 \in (IF DialogOpen(recorder) THEN {DialogActivate(recorder)}
                  ELSE ToggleItemAndAdvance(recorder)) :
           Handled("ToggleItemAndAdvance", KeyNone, FALSE, r2)

EventToggleAll ==
    /\ Running
    /\ Handled("ToggleAll", KeyNone, FALSE, Behind(recorder, ToggleAll(recorder)))

EventToggleAllUniform ==
    /\ Running
    /\ Handled("ToggleAllUniform", KeyNone, FALSE,
               Behind(recorder, ToggleAllUniform(recorder)))

\* Click { row, column } on the cell of the checkbox of an item on display
EventClick ==
    /\ Running
    /\ \E n \in 1..Len(VisibleKeys(recorder.state.files, recorder.expanded_items)) :
           LET key == VisibleKeys(recorder.state.files, recorder.expanded_items)[n]
           IN \E r2 \in (IF DialogOpen(recorder) THEN {recorder}
                         ELSE ClickCheckbox(recorder, key)) :
                 Handled("Click", key, FALSE, r2)

EventEditCommitMessage ==
    /\ Running
    /\ \E message \in EditedMessages :
           Handled("EditCommitMessage", KeyNone, FALSE,
                   Behind(recorder, EditCommitMessage(recorder, message)))

EventQuitAccept ==
    /\ Running
    /\ Handled("QuitAccept", KeyNone, FALSE, QuitAccept(recorder))

EventQuitCancel ==
    /\ Running
    /\ Handled("QuitCancel", KeyNone, FALSE, QuitCancel(recorder))

EventQuitInterrupt ==
    /\ Running
    /\ Handled("QuitInterrupt", KeyNone, FALSE, QuitInterrupt(recorder))

NextRecorder ==
    \/ EventFocusNext
    \/ EventFocusNextSameKind
    \/ EventFocusInner
    \/ EventFocusOuter
    \/ EventExpandItem
    \/ EventExpandAll
    \/ EventToggleItem
    \/ EventToggleItemAndAdvance
    \/ EventToggleAll
    \/ EventToggleAllUniform
    \/ EventClick
    \/ EventEditCommitMessage
    \/ EventQuitAccept
    \/ EventQuitCancel
    \/ EventQuitInterrupt

SpecRecorder == InitRecorder /\ [][NextRecorder]_vars

(***************************************************************************)
(* SpecFileInfo: a call of RealFilesystem::read_file_info on a path.  What *)
(* the operating system answers to fs::metadata and fs::read is the input; *)
(* `sel` holds the call and what it returned.                              *)
(***************************************************************************)
\* the highest permission bits of the entries, 0o777
MaxPerm == 511

\* the bit read_file_info tests, 0o001
ExecutableMask == 1

\* a & b on naturals
RECURSIVE BitAnd(_, _)
BitAnd(a, b) ==
    IF a = 0 \/ b = 0 THEN 0
    ELSE (a % 2) * (b % 2) + 2 * BitAnd(a \div 2, b \div 2)

\* the bytes 0 and 0xff; the second is not valid UTF-8 anywhere
NUL == "\\0"

BadByte == "\\xff"

\* contents.contains(&0)
ContainsNul(bytes) == \E i \in 1..Len(bytes) : bytes[i] = NUL

\* String::from_utf8(contents) is Ok
IsUtf8(bytes) == \A i \in 1..Len(bytes) : bytes[i] # BadByte

\* the sha1 of the bytes, in hex
Sha1Hex(bytes) == <<"sha1", bytes>>

\* the answers to fs::read: an error other than NotFound, or the bytes
DiskData ==
    {[ok |-> FALSE, bytes |-> << >>]}
    \cup {[ok |-> TRUE, bytes |-> b] :
              b \in {<< >>, <<"a", NL>>, <<"a", NUL>>, <<BadByte>>}}

\* the answers of the operating system for a path: not found, an error at
\* fs::metadata, or a Metadata and the answer to fs::read; the mode is the
\* st_mode of a regular file, 0o100000 and the permission bits
DiskEntries ==
    {[kind |-> "NotFound"], [kind |-> "Error"]}
    \cup {[kind |-> "Found", is_symlink |-> l, mode |-> 32768 + perm, data |-> d] :
              l \in BOOLEAN, perm \in 0..MaxPerm, d \in DiskData}

\* the `file_mode` of read_file_info, for an entry fs::metadata found
MetadataFileMode(metadata) ==
    IF metadata.is_symlink THEN Unix(40960)
    ELSE IF BitAnd(metadata.mode, ExecutableMask) = ExecutableMask
    THEN FILE_EXEC
    ELSE FILE_DEFAULT

\* the `contents` of read_file_info, for bytes fs::read returned
BytesContents(bytes) ==
    IF ContainsNul(bytes) \/ ~IsUtf8(bytes)
    THEN ContentsBinary(Sha1Hex(bytes), Len(bytes))
    ELSE ContentsText(bytes)

\* Err(Error::ReadFile { .. }) and Ok(FileInfo { .. })
ReadFileErr == [tag |-> "Err"]

ReadFileOk(file_mode, contents) ==
    [tag |-> "Ok", file_mode |-> file_mode, contents |-> contents]

\* read_file_info(path), path having the entry
RealReadFileInfo(entry) ==
    CASE entry.kind = "NotFound" -> ReadFileOk(Absent, ContentsAbsent)
      [] entry.kind = "Error" -> ReadFileErr
      [] OTHER ->
            IF ~entry.data.ok THEN ReadFileErr
            ELSE ReadFileOk(MetadataFileMode(entry), BytesContents(entry.data.bytes))

InitFileInfo ==
    /\ UiIdle
    /\ SelIdle
    /\ RunIdle
    /\ MergeIdle

CallReadFileInfo ==
    /\ sel = NoSel
    /\ \E entry \in DiskEntries :
          sel' = [tag |-> "read_file_info", entry |-> entry,
                  info |-> RealReadFileInfo(entry)]
    /\ UNCHANGED <<uiVars, file, runVars, mergeVars>>

NextFileInfo == CallReadFileInfo

SpecFileInfo == InitFileInfo /\ [][NextFileInfo]_vars

(***************************************************************************)
(* Properties of get_selected_contents                                     *)
(***************************************************************************)
\* every line of the file in order, an Unchanged line with change_type
\* "Unchanged"
RECURSIVE AllLines(_)
AllLines(sections) ==
    IF sections = << >> THEN << >>
    ELSE LET s == Head(sections)
             here ==
               CASE s.tag = "Unchanged" ->
                      [i \in 1..Len(s.lines) |->
                          [change_type |-> "Unchanged", is_checked |-> FALSE,
                           line |-> s.lines[i]]]
                 [] s.tag = "Changed" -> s.lines
                 [] OTHER -> << >>
         IN here \o AllLines(Tail(sections))

InSelected(l) ==
    \/ l.change_type = "Unchanged"
    \/ l.change_type = Removed /\ ~l.is_checked
    \/ l.change_type = Added /\ l.is_checked

InUnselected(l) ==
    \/ l.change_type = "Unchanged"
    \/ l.change_type = Removed /\ l.is_checked
    \/ l.change_type = Added /\ ~l.is_checked

RECURSIVE ConcatWhere(_, _)
ConcatWhere(ls, side) ==
    IF ls = << >> THEN << >>
    ELSE (IF (side = "selected" /\ InSelected(Head(ls)))
             \/ (side = "unselected" /\ InUnselected(Head(ls)))
          THEN Head(ls).line ELSE << >>) \o ConcatWhere(Tail(ls), side)

\* the text a SelectedContents stands for: nothing pushed is the empty text
TextOf(c) == IF c.tag = "Text" THEN c.contents ELSE EmptyStr

HasBinary(f) == \E i \in 1..Len(f.sections) : f.sections[i].tag = "Binary"

PartitionLaw ==
    /\ TextOf(sel.selected.contents) = ConcatWhere(AllLines(file.sections), "selected")
    /\ TextOf(sel.unselected.contents) =
          ConcatWhere(AllLines(file.sections), "unselected")

\* C1 as stated: for every File the selected text is the concatenation of the
\* Unchanged, unchecked Removed and checked Added lines and the unselected
\* text that of the Unchanged, checked Removed and unchecked Added lines.
C1_PartitionEveryFile == sel # NoSel => PartitionLaw

\* C1 amended: the partition law holds for every File that holds no Binary
\* section; both results are then Text or Unchanged (Unchanged when nothing
\* was pushed, the empty concatenation).
C1_PartitionNoBinary ==
    (sel # NoSel /\ ~HasBinary(file)) =>
        /\ PartitionLaw
        /\ sel.selected.contents.tag \in {"Text", "Unchanged"}
        /\ sel.unselected.contents.tag \in {"Text", "Unchanged"}

\* C1 witness: a File without Binary section holding an Unchanged line, a
\* checked and an unchecked changed line, with both texts computed
C1_Witness ==
    /\ sel # NoSel
    /\ ~HasBinary(file)
    /\ LET ls == AllLines(file.sections)
       IN /\ \E i \in 1..Len(ls) : ls[i].change_type = "Unchanged"
          /\ \E i \in 1..Len(ls) : ls[i].change_type = Added /\ ls[i].is_checked
          /\ \E i \in 1..Len(ls) : ls[i].change_type = Removed /\ ls[i].is_checked
    /\ sel.selected.contents = SelText(UnchangedText \o AddedText)
    /\ sel.unselected.contents = SelText(UnchangedText \o RemovedText)

\* index of the last Binary section, 0 when there is none
LastBinary(sections) ==
    LET idx == {i \in 1..Len(sections) : sections[i].tag = "Binary"}
    IN IF idx = {} THEN 0 ELSE CHOOSE i \in idx : \A j \in idx : i >= j

\* the file did not exist and its (first) FileMode section is checked with a
\* mode other than Absent
CreatedByCheckedMode(f) ==
    /\ f.file_mode = Absent
    /\ FileModeSection(f.sections) # 0
    /\ f.sections[FileModeSection(f.sections)].is_checked
    /\ f.sections[FileModeSection(f.sections)].mode # Absent

\* C2 as stated: for a File whose file_mode is Absent and whose FileMode
\* section is checked with a non-Absent mode, selected.contents is Text,
\* whatever other sections the file holds.
C2_CreatedIsText ==
    (sel # NoSel /\ CreatedByCheckedMode(file)) =>
        sel.selected.contents.tag = "Text"

\* C2 amended: for such a File selected.contents is never Unchanged; it is
\* Binary exactly when the last Binary section of the file is checked, and
\* Text (possibly empty) otherwise.
C2_CreatedNeverUnchanged ==
    (sel # NoSel /\ CreatedByCheckedMode(file)) =>
        /\ sel.selected.contents.tag # "Unchanged"
        /\ sel.selected.contents.tag = "Binary" <=>
              (LastBinary(file.sections) # 0
               /\ file.sections[LastBinary(file.sections)].is_checked)

\* C2 witness: a created file with nothing but its checked FileMode section
\* and an empty Changed section yields the empty text
C2_Witness ==
    /\ sel # NoSel
    /\ CreatedByCheckedMode(file)
    /\ file.sections = <<SectionFileMode(TRUE, FILE_DEFAULT), SectionChanged(<< >>)>>
    /\ sel.selected.contents = SelText(EmptyStr)

(***************************************************************************)
(* Properties of run and apply_changes                                     *)
(***************************************************************************)
DiffMode == ~opts.dir_diff /\ opts.base = None

MergeMode == ~opts.dir_diff /\ opts.base # None

\* apply_changes ran its loop to the end and run returned Ok(())
Applied == pc = "done" /\ result = "Ok" /\ ~opts.read_only

NoneChecked == \A i \in 1..Len(files) : files[i] = FileSetChecked(files[i], FALSE)

AllChecked == \A i \in 1..Len(files) : files[i] = FileSetChecked(files[i], TRUE)

TextOrAbsent(info) == info.contents.tag \in {"Absent", "Text"}

\* what apply_changes selected of the i-th file
SelectedOf(i) == GetSelectedContents(files[i]).selected

\* C3: in apply_changes, the only filesystem operation issued for a file
\* whose selected file_mode is Absent is remove_file(write_root/path);
\* no create_dir_all, write_file or copy_file is issued for it.
C3_AbsentOnlyRemoves ==
    \A k \in 1..Len(ops) :
        SelectedOf(ops[k].file).file_mode = Absent
        => /\ ops[k].op = "remove_file"
           /\ ops[k].path = Join(write_root, files[ops[k].file].path)

\* C4: in two-way diff mode with left and right each absent or a text file,
\* process_opts then apply_changes with no checkbox selected leaves the
\* right path equal to the left: the left's text if the left exists, absent
\* if it does not.
C4_NothingCheckedTakesLeft ==
    (/\ DiffMode /\ Applied /\ NoneChecked
     /\ TextOrAbsent(fs0[LeftPath]) /\ TextOrAbsent(fs0[RightPath]))
    => IF Exists(fs0[LeftPath])
       THEN fs[RightPath].contents = fs0[LeftPath].contents
       ELSE ~Exists(fs[RightPath])

\* a removal of the right path followed by a write of the same path, for a
\* file whose selected file_mode is Absent
C3_RemovedThenWritten ==
    \E k \in 1..Len(ops) :
        /\ DiffMode /\ fs0[LeftPath] = TextInfo(<<"a", NL>>)
        /\ ~Exists(fs0[RightPath])
        /\ SelectedOf(ops[k].file).file_mode = Absent
        /\ ops[k].op = "write_file" /\ ops[k].ok

\* an empty left file, an absent right, nothing checked: the right is still
\* absent after apply_changes
C4_EmptyLeftLost ==
    /\ DiffMode /\ Applied /\ NoneChecked
    /\ fs0[LeftPath] = TextInfo(<< >>) /\ ~Exists(fs0[RightPath])
    /\ ~Exists(fs[RightPath])

\* C5: in two-way diff mode with left and right each absent or a text file,
\* process_opts, then every checkbox checked, then apply_changes leaves the
\* right path exactly as it was (same text and mode, or still absent) and
\* never modifies the left path.
C5_AllCheckedKeepsRight ==
    (/\ DiffMode /\ Applied /\ AllChecked
     /\ TextOrAbsent(fs0[LeftPath]) /\ TextOrAbsent(fs0[RightPath]))
    => /\ fs[RightPath] = fs0[RightPath]
       /\ fs[LeftPath] = fs0[LeftPath]
       /\ \A k \in 1..Len(ops) : ops[k].path # LeftPath

C5_Witness ==
    /\ DiffMode /\ Applied /\ AllChecked
    /\ fs0[LeftPath] = TextInfo(<<"a", NL>>)
    /\ fs0[RightPath] = TextInfo(<<NL, "a">>)
    /\ \E k \in 1..Len(ops) : ops[k].op = "write_file" /\ ops[k].ok

\* C6: filesystem-mutating operations are issued only after the recorder
\* returned an accepted state, and only when dry_run is false and the state
\* is not read-only; after a cancel, a recorder failure, in a dry run and in
\* read-only mode none is issued and the filesystem is as it was.
C6_MutationsOnlyAfterAccept ==
    /\ (ops # << >> \/ fs # fs0)
       => (recorded = "Ok" /\ ~opts.dry_run /\ ~opts.read_only)
    /\ (pc = "done" /\ (result \in {"Cancelled", "Record", "DryRun"}
                        \/ opts.read_only))
       => (ops = << >> /\ fs = fs0)

C6_Witness ==
    /\ recorded = "Ok" /\ ~opts.dry_run /\ ~opts.read_only
    /\ ops # << >> /\ fs # fs0

\* the error a failed filesystem call returns
ErrorOfOp(op) ==
    CASE op = "remove_file" -> "RemoveFile"
      [] op = "copy_file" -> "CopyFile"
      [] op = "create_dir_all" -> "CreateDirAll"
      [] op = "write_file" -> "WriteFile"

\* the effects a logged call that succeeded can have had
Effects(f, o) ==
    CASE o.op = "remove_file" -> {RemoveFile(f, o.path)}
      [] o.op = "copy_file" -> CopyFileOutcomes(f, o.arg[1], o.path)
      [] o.op = "create_dir_all" -> {f}
      [] o.op = "write_file" -> {WriteFile(f, o.path, o.arg[1])}

\* the filesystems the calls of a log can leave behind
RECURSIVE Replay(_, _)
Replay(f, log) ==
    IF log = << >> THEN {f}
    ELSE IF Head(log).ok
         THEN UNION {Replay(g, Tail(log)) : g \in Effects(f, Head(log))}
         ELSE Replay(f, Tail(log))

\* C7: apply_changes processes files in list order and stops at the first
\* filesystem operation that fails: it returns that error, issues no
\* operation for the rest of that file or for any later file, and the
\* effects already applied stay in place (no rollback).
C7_StopsAtFirstFailure ==
    /\ \A k \in 1..Len(ops) : \A m \in k..Len(ops) : ops[k].file <= ops[m].file
    /\ \A k \in 1..Len(ops) :
          ~ops[k].ok => /\ k = Len(ops)
                        /\ pc = "done"
                        /\ result = ErrorOfOp(ops[k].op)
    /\ fs \in Replay(fs0, ops)

\* the first file of a directory was written, the call for the second failed
C7_Witness ==
    /\ Len(ops) >= 2
    /\ ~ops[Len(ops)].ok /\ ops[Len(ops)].file = 2
    /\ ops[1].file = 1 /\ ops[1].ok
    /\ fs # fs0
    /\ pc = "done"

\* the three inputs of a merge are texts that diffy merges cleanly
CleanMerge ==
    /\ MergeMode
    /\ \A p \in {BasePath, LeftPath, RightPath} : fs0[p].contents.tag = "Text"
    /\ DiffyMerge(fs0[BasePath].contents.contents,
                  fs0[LeftPath].contents.contents,
                  fs0[RightPath].contents.contents, InitialMarkerLen).ok

MergedText ==
    DiffyMerge(fs0[BasePath].contents.contents, fs0[LeftPath].contents.contents,
               fs0[RightPath].contents.contents, InitialMarkerLen).text

\* C10: in three-way merge mode, when base, left and right merge cleanly,
\* the output path holds the merged text once the user accepted and
\* apply_changes returned.
C10_CleanMergeWritten ==
    (CleanMerge /\ Applied)
    => /\ fs[OutputPath].contents.tag = "Text"
       /\ fs[OutputPath].contents.contents = MergedText

\* a clean merge was accepted and applied, and the output path is absent
C10_CleanMergeNotWritten ==
    /\ CleanMerge /\ Applied
    /\ fs0[LeftPath] = TextInfo(<<"b", NL>>)
    /\ fs0[BasePath] = TextInfo(<<"a", NL>>)
    /\ fs0[RightPath] = TextInfo(<<"a", NL>>)
    /\ ops = << >>
    /\ ~Exists(fs[OutputPath])

(***************************************************************************)
(* Properties of make_conflict_markers and create_merge                    *)
(***************************************************************************)
\* C8: none of the four markers make_conflict_markers returns occurs as a
\* substring of base ++ left ++ right; hence no line of an input starts with
\* a marker, so a line the parser classifies as a marker is not a line of
\* an input.
C8_MarkersNotInInputs ==
    marker_call.pc = "returned"
    => LET all == All(marker_call)
           markers == marker_call.markers[1]
       IN /\ \A m \in 1..4 : \A i \in 1..Len(all) : \A j \in i..Len(all) :
                SubSeq(all, i, j) # markers[m]
          /\ \A line \in LinesOf(marker_call.base) \cup LinesOf(marker_call.left)
                         \cup LinesOf(marker_call.right) :
                MarkerType(line, markers) = "None"

\* the markers were returned after two lengths were rejected, one of them
\* because an input line starts with a marker of that length
C8_Witness ==
    /\ marker_call.pc = "returned"
    /\ marker_call.len >= InitialMarkerLen + 2
    /\ StartsWith(marker_call.right, Repeat("=", InitialMarkerLen))
    /\ marker_call.left # << >>

IsChanged(s) == s.tag = "Changed"

\* the index of the first line from `from` on that is a marker of type mt,
\* 0 when there is none
FirstMarker(call, from, mt) ==
    LET found == {i \in from..Len(call.lines) :
                     MarkerType(call.lines[i], call.markers) = mt}
    IN IF found = {} THEN 0 ELSE CHOOSE i \in found : \A j \in found : i <= j

\* the conflict regions of the lines read so far: the places of the left,
\* base-start, base-end and right markers of each, in that order
RECURSIVE ConflictRegions(_, _)
ConflictRegions(call, from) ==
    LET l == FirstMarker(call, from, "Left")
        bs == IF l = 0 THEN 0 ELSE FirstMarker(call, l + 1, "BaseStart")
        be == IF bs = 0 THEN 0 ELSE FirstMarker(call, bs + 1, "BaseEnd")
        r == IF be = 0 THEN 0 ELSE FirstMarker(call, be + 1, "Right")
    IN IF r = 0 THEN << >>
       ELSE <<[left |-> l, base_start |-> bs, base_end |-> be, right |-> r]>>
            \o ConflictRegions(call, r + 1)

UncheckedLines(lines, change_type) ==
    [n \in 1..Len(lines) |-> SectionChangedLine(FALSE, change_type, lines[n])]

\* what the claim expects of a region
RegionSection(call, region) ==
    SectionChanged(
        UncheckedLines(SubSeq(call.lines, region.left + 1, region.base_start - 1),
                       Added)
        \o UncheckedLines(SubSeq(call.lines, region.base_start + 1,
                                 region.base_end - 1), Removed)
        \o UncheckedLines(SubSeq(call.lines, region.base_end + 1,
                                 region.right - 1), Added))

\* C9: every conflict region parsed by create_merge (left, base-start,
\* base-end and right marker in that order) yields exactly one Changed
\* section whose lines are the left lines as Added, then the base lines as
\* Removed, then the right lines as Added, all unchecked; no Changed
\* section is emitted otherwise.
C9_OneChangedPerRegion ==
    LET regions == ConflictRegions(merge_call, 1)
    IN SelectSeq(merge_call.sections, IsChanged)
       = [n \in 1..Len(regions) |-> RegionSection(merge_call, regions[n])]

\* a text with a left line and a base line in its region was parsed
C9_Witness ==
    /\ merge_call.pc = "returned"
    /\ \E n \in 1..Len(merge_call.sections) :
          LET s == merge_call.sections[n]
          IN /\ s.tag = "Changed"
             /\ Len(s.lines) = 2
             /\ s.lines[1].change_type = Added
             /\ s.lines[2].change_type = Removed

(***************************************************************************)
(* Properties of process_opts                                              *)
(***************************************************************************)
\* process_opts returned, and not because a read failed
ProcessOptsReturned == pc # "process_opts" /\ result \notin {"ReadFile", "WalkDir"}

\* the inputs of a merge in the order base, left, right
MergeInputs == <<BasePath, LeftPath, RightPath>>

\* the first input of the merge whose contents have the tag, 0 for none
FirstInput(tag) ==
    LET found == {i \in 1..3 : fs0[MergeInputs[i]].contents.tag = tag}
    IN IF found = {} THEN 0 ELSE CHOOSE i \in found : \A j \in found : i <= j

\* C11: create_merge_file fails without a File when an input is unusable:
\* MissingMergeFile naming the first absent of base, left, right (even
\* when another is Binary), otherwise BinaryMergeFile naming the first
\* binary one; only three Text inputs reach the merge and give a File.
C11_MergeInputErrors ==
    (MergeMode /\ ProcessOptsReturned)
    => IF FirstInput("Absent") # 0
       THEN /\ result = "MissingMergeFile"
            /\ merge_error_path = Some(MergeInputs[FirstInput("Absent")])
            /\ files = << >> /\ pc = "done"
       ELSE IF FirstInput("Binary") # 0
       THEN /\ result = "BinaryMergeFile"
            /\ merge_error_path = Some(MergeInputs[FirstInput("Binary")])
            /\ files = << >> /\ pc = "done"
       ELSE /\ result \notin {"MissingMergeFile", "BinaryMergeFile"}
            /\ merge_error_path = None
            /\ Len(files) = 1
            /\ files[1].path = OutputPath

\* the base is binary and the right is absent: the absent right is reported
C11_Witness ==
    /\ MergeMode /\ ProcessOptsReturned
    /\ fs0[BasePath] = BinaryInfo /\ Exists(fs0[LeftPath])
    /\ ~Exists(fs0[RightPath])
    /\ result = "MissingMergeFile" /\ merge_error_path = Some(RightPath)

\* the lines of one section that belong to the side whose changed lines
\* have the given change type
SideLines(section, change_type) ==
    CASE section.tag = "Unchanged" -> Concat(section.lines)
      [] section.tag = "Changed" ->
            Concat([i \in 1..Len(section.lines) |->
                      IF section.lines[i].change_type = change_type
                      THEN section.lines[i].line ELSE EmptyStr])
      [] OTHER -> EmptyStr

\* the text of one side of a list of sections
SideText(sections, change_type) ==
    Concat([i \in 1..Len(sections) |-> SideLines(sections[i], change_type)])

\* process_opts built the File of a two-way diff of two text files
DiffOfTexts ==
    /\ DiffMode /\ ProcessOptsReturned
    /\ fs0[LeftPath].contents.tag = "Text"
    /\ fs0[RightPath].contents.tag = "Text"

OldContents == fs0[LeftPath].contents.contents

NewContents == fs0[RightPath].contents.contents

\* C12 as stated: for every pair of text contents (old, new) the sections of
\* create_diff reconstruct both: the Unchanged and Removed lines in order
\* are old, the Unchanged and Added lines in order are new.
C12_DiffReconstructsEveryPair ==
    DiffOfTexts
    => /\ SideText(files[1].sections, Removed) = OldContents
       /\ SideText(files[1].sections, Added) = NewContents

\* C12, amended: for every pair of different text contents the sections of
\* create_diff reconstruct both inputs byte for byte; for equal contents
\* create_diff returns no section at all.
C12_DiffReconstructsDifferent ==
    DiffOfTexts
    => IF OldContents # NewContents
       THEN /\ SideText(files[1].sections, Removed) = OldContents
            /\ SideText(files[1].sections, Added) = NewContents
       ELSE \A i \in 1..Len(files[1].sections) :
               files[1].sections[i].tag \notin {"Unchanged", "Changed"}

\* a diff with a kept line and a changed line, the old text without a final
\* newline
C12_Witness ==
    /\ DiffOfTexts
    /\ OldContents = <<NL, "a">>
    /\ NewContents = <<NL>>
    /\ \E i \in 1..Len(files[1].sections) : files[1].sections[i].tag = "Unchanged"
    /\ \E i \in 1..Len(files[1].sections) : files[1].sections[i].tag = "Changed"

(***************************************************************************)
(* More properties of get_selected_contents                                *)
(***************************************************************************)
\* section i of the file is a FileMode section and none before it is
IsFirstFileMode(i) ==
    /\ file.sections[i].tag = "FileMode"
    /\ \A j \in 1..(i - 1) : file.sections[j].tag # "FileMode"

\* C13: get_selected_contents derives both file modes from the first
\* FileMode section only: checked, selected.file_mode is its mode and
\* unselected.file_mode the file's file_mode; unchecked, the reverse; with
\* no FileMode section both are file_mode; later FileMode sections have no
\* effect.
C13_ModesFromFirstFileMode ==
    sel # NoSel
    => /\ \A i \in 1..Len(file.sections) :
             IsFirstFileMode(i)
             => IF file.sections[i].is_checked
                THEN /\ sel.selected.file_mode = file.sections[i].mode
                     /\ sel.unselected.file_mode = file.file_mode
                ELSE /\ sel.selected.file_mode = file.file_mode
                     /\ sel.unselected.file_mode = file.sections[i].mode
       /\ (\A i \in 1..Len(file.sections) : file.sections[i].tag # "FileMode")
          => /\ sel.selected.file_mode = file.file_mode
             /\ sel.unselected.file_mode = file.file_mode

\* two FileMode sections that disagree in mode and checkbox, the first one
\* checked with a mode that is not the file's
C13_Witness ==
    /\ sel # NoSel
    /\ \E i \in 1..Len(file.sections) : \E j \in (i + 1)..Len(file.sections) :
          /\ IsFirstFileMode(i)
          /\ file.sections[j].tag = "FileMode"
          /\ file.sections[i].is_checked /\ ~file.sections[j].is_checked
          /\ file.sections[i].mode # file.sections[j].mode
          /\ file.sections[i].mode # file.file_mode

\* the last section of the file is a Binary section
FinalBinary ==
    /\ file.sections # << >>
    /\ file.sections[Len(file.sections)].tag = "Binary"

FinalSection == file.sections[Len(file.sections)]

FinalBinaryContents ==
    SelBinary(FinalSection.old_description, FinalSection.new_description)

\* C14 as stated: for a File whose final section is Binary, that section
\* alone decides: checked, selected.contents is Binary with its
\* descriptions and unselected.contents is Unchanged; unchecked, the
\* reverse.
C14_FinalBinaryAlone ==
    (sel # NoSel /\ FinalBinary)
    => IF FinalSection.is_checked
       THEN /\ sel.selected.contents = FinalBinaryContents
            /\ sel.unselected.contents = SelUnchanged
       ELSE /\ sel.selected.contents = SelUnchanged
            /\ sel.unselected.contents = FinalBinaryContents

\* what the side the final Binary section does not go to holds: Unchanged,
\* or the empty Text when the file is created on that side
OtherSide(side_mode) ==
    IF file.file_mode = Absent /\ side_mode # Absent
    THEN SelText(EmptyStr) ELSE SelUnchanged

\* C14, amended: for a File whose final section is Binary, whatever Changed
\* lines precede it: checked, selected.contents is Binary with its
\* descriptions; unchecked, unselected.contents is.  The contents of the
\* other side are Unchanged, except that they are the empty Text when
\* file_mode is Absent and the file mode of that side is not.
C14_FinalBinaryAndCreation ==
    (sel # NoSel /\ FinalBinary)
    => IF FinalSection.is_checked
       THEN /\ sel.selected.contents = FinalBinaryContents
            /\ sel.unselected.contents = OtherSide(sel.unselected.file_mode)
       ELSE /\ sel.selected.contents = OtherSide(sel.selected.file_mode)
            /\ sel.unselected.contents = FinalBinaryContents

\* a checked changed line before the final Binary section
C14_Witness ==
    /\ sel # NoSel /\ FinalBinary
    /\ \E i \in 1..(Len(file.sections) - 1) :
          /\ file.sections[i].tag = "Changed"
          /\ \E k \in 1..Len(file.sections[i].lines) :
                file.sections[i].lines[k].is_checked
    /\ sel.selected.contents.tag \in {"Binary", "Unchanged"}

(***************************************************************************)
(* More properties of apply_changes                                        *)
(***************************************************************************)
\* the places in the log of the calls issued for the i-th file
OpsOfFile(i) == {k \in 1..Len(ops) : ops[k].file = i}

\* apply_changes is past the i-th file
PastFile(i) == pc \in {"file", "contents", "write", "done"} /\ file_idx > i

\* the i-th file has a Binary section, and it is unchecked
BinaryUnchecked(i) ==
    /\ \E j \in 1..Len(files[i].sections) : files[i].sections[j].tag = "Binary"
    /\ \A j \in 1..Len(files[i].sections) :
          files[i].sections[j].tag = "Binary" => ~files[i].sections[j].is_checked

\* C15: when the selected contents of a file are Binary, apply_changes
\* issues exactly one copy_file, to write_root/path, from file.old_path when
\* it is set and from file.path, not prefixed by write_root, when it is
\* not; when the Binary section is unchecked no filesystem operation is
\* issued for the file.
C15_BinaryCopiedFromOldPath ==
    \A i \in 1..Len(files) :
        /\ \A k \in OpsOfFile(i) :
              ops[k].op = "copy_file"
              => /\ SelectedOf(i).contents.tag = "Binary"
                 /\ ops[k].path = Join(write_root, files[i].path)
                 /\ ops[k].arg = Some(IF files[i].old_path # None
                                      THEN files[i].old_path[1]
                                      ELSE files[i].path)
        /\ (PastFile(i) /\ SelectedOf(i).contents.tag = "Binary")
           => Cardinality({k \in OpsOfFile(i) : ops[k].op = "copy_file"}) = 1
        /\ BinaryUnchecked(i) => OpsOfFile(i) = {}

\* in a dir-diff a binary file of the right root was copied onto itself
C15_CopiedOntoItself ==
    \E k \in 1..Len(ops) :
        /\ opts.dir_diff
        /\ ops[k].op = "copy_file" /\ ops[k].ok
        /\ files[ops[k].file].old_path = None
        /\ ops[k].arg = Some(ops[k].path)
        /\ ops[k].path = Join(RightRoot, files[ops[k].file].path)

(***************************************************************************)
(* Properties of tristate, set_checked and toggle_all (SpecChecked)        *)
(***************************************************************************)
\* the checkboxes of a section, as a set of booleans
SectionItems(s) ==
    CASE s.tag = "Unchanged" -> {}
      [] s.tag = "Changed" -> {s.lines[j].is_checked : j \in 1..Len(s.lines)}
      [] OTHER -> {s.is_checked}

\* the checkboxes of a file: those of all its sections
FileItems(f) == UNION {SectionItems(f.sections[i]) : i \in 1..Len(f.sections)}

\* empty or all false: False; all true: True; mixed: Partial
TristateOfItems(items) ==
    IF items \subseteq {FALSE} THEN "False"
    ELSE IF items = {TRUE} THEN "True"
    ELSE "Partial"

\* C16: File::tristate and Section::tristate are False when the node has no
\* checkbox or only unchecked ones, True when it has one and all are
\* checked, and Partial otherwise, where an Unchanged section has no
\* checkbox and the checkboxes of a file are those of all its sections.
C16_TristateOfCheckboxes ==
    sel.tag = "tristate" =>
        /\ sel.file = TristateOfItems(FileItems(file))
        /\ \A i \in 1..Len(file.sections) :
              sel.sections[i] = TristateOfItems(SectionItems(file.sections[i]))

\* a Partial file made of a True section and a False FileMode or Binary
\* section
C16_Witness ==
    /\ sel.tag = "tristate"
    /\ sel.file = "Partial"
    /\ \E i, j \in 1..Len(file.sections) :
          /\ file.sections[i].tag = "Changed"
          /\ sel.sections[i] = "True"
          /\ file.sections[j].tag \in {"FileMode", "Binary"}
          /\ sel.sections[j] = "False"

\* the node a call in SpecChecked was made on: the file or one section
TargetTristate ==
    IF sel.target = 0 THEN FileTristate(file)
    ELSE SectionTristate(file.sections[sel.target])

TargetItems ==
    IF sel.target = 0 THEN FileItems(file)
    ELSE SectionItems(file.sections[sel.target])

\* C17 as stated: set_checked(true) on any File or Section makes its
\* tristate True, and set_checked(false) on one with a checkbox makes it
\* False.
C17_SetCheckedAnyNode ==
    sel.tag = "set_checked" =>
        /\ sel.checked => TargetTristate = "True"
        /\ ~sel.checked /\ TargetItems # {} => TargetTristate = "False"

\* C17: set_checked(true) on a File or Section with at least one checkbox
\* makes its tristate True, set_checked(false) makes it False, and the
\* tristate of a File or Section without a checkbox is False after either.
C17_SetCheckedWithCheckbox ==
    sel.tag = "set_checked" =>
        /\ TargetItems \subseteq {sel.checked}
        /\ sel.checked /\ TargetItems # {} => TargetTristate = "True"
        /\ ~sel.checked \/ TargetItems = {} => TargetTristate = "False"

\* set_checked(true) on a file with checkboxes in two sections, one of them
\* a Binary section
C17_Witness ==
    /\ sel.tag = "set_checked" /\ sel.target = 0 /\ sel.checked
    /\ TargetTristate = "True"
    /\ \E i, j \in 1..Len(file.sections) :
          /\ i # j
          /\ file.sections[i].tag = "Binary"
          /\ SectionItems(file.sections[j]) # {}

\* set_checked(true) on a node without a checkbox
C17_NoCheckbox ==
    /\ sel.tag = "set_checked" /\ sel.checked
    /\ TargetItems = {}
    /\ TargetTristate = "False"

(***************************************************************************)
(* Properties of the dir-diff arm of process_opts (Spec)                   *)
(***************************************************************************)
\* the relative paths that hold a file under the left or the right root
FoundPaths ==
    {p \in {<<"f">>, <<"g">>} :
        Exists(fs0[Join(opts.left, p)]) \/ Exists(fs0[Join(opts.right, p)])}

\* C18: in dir-diff mode process_opts produces exactly one File per relative
\* path found under the left or the right root, without duplicate and in
\* ascending path order, each built from left/path and right/path, and
\* write_root is the right root; when a read fails there is no DiffContext.
C18_DirDiffFiles ==
    opts.dir_diff /\ pc # "process_opts" =>
        IF result \in {"ReadFile", "WalkDir"}
        THEN files = << >> /\ write_root = EmptyPath /\ pc = "done" /\ ops = << >>
        ELSE /\ {files[i].path : i \in 1..Len(files)} = FoundPaths
             /\ Len(files) = Cardinality(FoundPaths)
             /\ \A i, j \in 1..Len(files) :
                   i < j => PathLess(files[i].path, files[j].path)
             /\ \A i \in 1..Len(files) :
                   FileSetChecked(files[i], FALSE)
                       \in CreateFile(fs0[Join(opts.left, files[i].path)],
                                      files[i].path,
                                      fs0[Join(opts.right, files[i].path)],
                                      files[i].path)
             /\ write_root = opts.right

\* "g" is found under the left root only and "f" under the right root only:
\* two Files, "f" first
C18_Witness ==
    /\ opts.dir_diff /\ pc = "recorder"
    /\ Exists(fs0[Join(opts.left, <<"g">>)])
    /\ ~Exists(fs0[Join(opts.right, <<"g">>)])
    /\ ~Exists(fs0[Join(opts.left, <<"f">>)])
    /\ Exists(fs0[Join(opts.right, <<"f">>)])
    /\ Len(files) = 2
    /\ files[1].path = <<"f">> /\ files[2].path = <<"g">>

InvertedSection(s, t) ==
    CASE s.tag = "Unchanged" -> t = s
      [] s.tag = "Changed" ->
            /\ t.tag = "Changed"
            /\ Len(t.lines) = Len(s.lines)
            /\ \A k \in 1..Len(s.lines) :
                  /\ t.lines[k].is_checked = ~s.lines[k].is_checked
                  /\ t.lines[k].change_type = s.lines[k].change_type
                  /\ t.lines[k].line = s.lines[k].line
      [] OTHER -> t = [s EXCEPT !.is_checked = ~s.is_checked]

\* file g is file f with each of its checkboxes inverted
InvertedFile(f, g) ==
    /\ g.old_path = f.old_path /\ g.path = f.path /\ g.file_mode = f.file_mode
    /\ Len(g.sections) = Len(f.sections)
    /\ \A j \in 1..Len(f.sections) : InvertedSection(f.sections[j], g.sections[j])

\* C20: toggle_all inverts the is_checked flag of every changed line,
\* FileMode section and Binary section of the file (of the one section when
\* called on a section) and changes nothing else; a fully checked file
\* becomes fully unchecked and a partially checked one stays Partial.
C20_ToggleAllInverts ==
    sel.tag = "toggle_all" =>
        IF sel.target = 0
        THEN /\ InvertedFile(sel.before, file)
             /\ FileTristate(sel.before) = "True" =>
                    FileTristate(file) = "False" /\ FileItems(file) = {FALSE}
             /\ FileTristate(sel.before) = "Partial" => FileTristate(file) = "Partial"
        ELSE /\ Len(file.sections) = Len(sel.before.sections)
             /\ \A j \in 1..Len(file.sections) :
                   IF j = sel.target
                   THEN InvertedSection(sel.before.sections[j], file.sections[j])
                   ELSE file.sections[j] = sel.before.sections[j]

\* a Partial file with a Changed section of two lines and toggle_all called
\* on the file
C20_Witness ==
    /\ sel.tag = "toggle_all" /\ sel.target = 0
    /\ FileTristate(sel.before) = "Partial"
    /\ FileTristate(file) = "Partial"
    /\ \E j \in 1..Len(file.sections) :
          /\ file.sections[j].tag = "Changed"
          /\ Len(file.sections[j].lines) = 2

\* a fully checked file with a FileMode and a Binary section and toggle_all
\* called on the file
C20_FullyChecked ==
    /\ sel.tag = "toggle_all" /\ sel.target = 0
    /\ FileTristate(sel.before) = "True"
    /\ \E i, j \in 1..Len(file.sections) :
          /\ file.sections[i].tag = "FileMode"
          /\ file.sections[j].tag = "Binary"

\* the ToggleAll event of the recorder inverts the checkboxes of every file
ToggleAllEveryFile ==
    [][RecorderToggleAll =>
          /\ Len(files') = Len(files)
          /\ \A i \in 1..Len(files) : InvertedFile(files[i], files'[i])]_vars

(***************************************************************************)
(* Properties of the events of the recorder (SpecRecorder)                 *)
(***************************************************************************)
\* the recorder handled the event last, with no quit dialog in the way
Just(event) ==
    /\ last_event.event = event
    /\ last_event.before.quit_dialog = None

\* the checkboxes of all files, as a set of booleans
AllCheckboxes(fileList) == UNION {FileItems(fileList[i]) : i \in 1..Len(fileList)}

\* the files but for their checkboxes
Unchecked(fileList) == [i \in 1..Len(fileList) |-> FileSetChecked(fileList[i], FALSE)]

\* C21: in an editable state ToggleAllUniform sets every checkbox to the same
\* value, false when every one was checked and true otherwise: a Partial or
\* all-unchecked state becomes all-checked and an all-checked one
\* all-unchecked, so that successive events alternate.
C21_ToggleAllUniform ==
    Just("ToggleAllUniform") /\ ~recorder.state.is_read_only =>
        LET before == AllCheckboxes(last_event.before.state.files)
            after == AllCheckboxes(recorder.state.files)
        IN /\ after = {before # {TRUE}}
           /\ before = {TRUE} => after = {FALSE}
           /\ before = {FALSE} => after = {TRUE}
           /\ before = BOOLEAN => after = {TRUE}
           /\ Unchecked(recorder.state.files) = Unchecked(last_event.before.state.files)
           /\ recorder = [last_event.before EXCEPT !.state.files = recorder.state.files]

\* ToggleAllUniform on a Partial state
C21_Witness ==
    /\ Just("ToggleAllUniform") /\ ~recorder.state.is_read_only
    /\ AllCheckboxes(last_event.before.state.files) = BOOLEAN
    /\ AllCheckboxes(recorder.state.files) = {TRUE}

\* C22 as stated: ToggleItemAndAdvance has the effect of ToggleItem followed
\* by FocusNext: the focused item is toggled and the focus moves to the next
\* item on display in tree order (from an expanded file to its first
\* section).
C22_AdvanceIsFocusNext ==
    Just("ToggleItemAndAdvance") =>
        \E r2 \in ToggleItem(last_event.before) : recorder = FocusNext(r2)

\* ToggleItemAndAdvance on an expanded file with a section below it: the
\* file is toggled and the focus is on the next file
C22_AdvancedToNextFile ==
    /\ Just("ToggleItemAndAdvance")
    /\ last_event.before.selection_key = FileKey(1)
    /\ FileKey(1) \in last_event.before.expanded_items
    /\ FocusNext(last_event.before).selection_key = SectionKey(1, 2)
    /\ recorder.selection_key = FileKey(2)
    /\ recorder.state.files \in ToggleKey(last_event.before.state.files, FileKey(1))
    /\ recorder.state.files # last_event.before.state.files

\* the checkboxes of the item of a key, as a set of booleans
KeyItems(fileList, key) ==
    CASE key.tag = "File" -> FileItems(fileList[key.file_idx])
      [] key.tag = "Section" ->
            SectionItems(fileList[key.file_idx].sections[key.section_idx])
      [] key.tag = "Line" ->
            {fileList[key.file_idx].sections[key.section_idx]
                 .lines[key.line_idx].is_checked}
      [] OTHER -> {}

\* C23 as stated: in an editable state a Click on the checkbox of an item
\* toggles that item, whether or not the item had the focus before.
C23_ClickToggles ==
    Just("Click") /\ ~recorder.state.is_read_only =>
        recorder.state.files \in ToggleKey(last_event.before.state.files, last_event.key)

\* a Click on the unchecked checkbox of a file that did not have the focus:
\* the file has the focus and is still unchecked
C23_ClickOnlyFocused ==
    /\ Just("Click") /\ ~recorder.state.is_read_only
    /\ last_event.key = FileKey(2)
    /\ last_event.before.selection_key = FileKey(1)
    /\ KeyItems(last_event.before.state.files, FileKey(2)) = {FALSE}
    /\ recorder.selection_key = FileKey(2)
    /\ recorder.state.files = last_event.before.state.files

\* C24 as stated: after an ExpandAll every file and every section is expanded,
\* whatever was expanded before.
C24_ExpandAllExpands ==
    Just("ExpandAll") =>
        recorder.expanded_items = Collapsible(recorder.state.files)

\* an ExpandAll issued with every file and every section expanded: nothing is
\* expanded afterwards and the focus is on a file
C24_ExpandAllCollapsed ==
    /\ Just("ExpandAll")
    /\ last_event.before.expanded_items = Collapsible(last_event.before.state.files)
    /\ last_event.before.selection_key.tag = "Section"
    /\ recorder.expanded_items = {}
    /\ recorder.selection_key = FileKey(last_event.before.selection_key.file_idx)

\* the event handled last was this one, with the quit dialog open
InDialog(event) ==
    /\ last_event.event = event
    /\ last_event.before.quit_dialog # None

\* C25: with the quit dialog open, QuitAccept changes nothing (the run goes on
\* and the dialog stays), QuitCancel closes the dialog and the run goes on,
\* QuitInterrupt ends the run with RecordError::Cancelled; a QuitInterrupt
\* with no dialog open opens the dialog and the run goes on.
C25_QuitProtocol ==
    /\ InDialog("QuitAccept") =>
           /\ recorder.pc = "running"
           /\ recorder.quit_dialog = last_event.before.quit_dialog
    /\ InDialog("QuitCancel") =>
           /\ recorder.pc = "running"
           /\ recorder.quit_dialog = None
           /\ recorder.state = last_event.before.state
           /\ recorder.selection_key = last_event.before.selection_key
    /\ InDialog("QuitInterrupt") =>
           /\ recorder.pc = "done"
           /\ recorder.result = "Cancelled"
    /\ Just("QuitInterrupt") =>
           /\ recorder.pc = "running"
           /\ recorder.quit_dialog # None
           /\ recorder.state = last_event.before.state

\* a QuitInterrupt with the dialog open has cancelled the run
C25_Witness ==
    /\ InDialog("QuitInterrupt")
    /\ recorder.pc = "done"
    /\ recorder.result = "Cancelled"

\* a QuitInterrupt with no dialog open has opened the dialog over changed files
C25_InterruptOpened ==
    /\ Just("QuitInterrupt")
    /\ recorder.pc = "running"
    /\ recorder.quit_dialog # None
    /\ recorder.quit_dialog[1].num_changed_files > 0

\* the event handled last has opened the quit dialog
DialogOpened ==
    /\ last_event.event \in {"QuitCancel", "QuitInterrupt"}
    /\ last_event.before.quit_dialog = None
    /\ recorder.quit_dialog # None

\* C26 as stated: when the quit dialog opens, Go Back has the focus, and
\* pressing the focused button of a dialog whose focus is where it was at
\* opening does not end the run.
C26_GoBackFocused ==
    /\ DialogOpened => recorder.quit_dialog[1].focused_button = "GoBack"
    /\ (/\ InDialog("ToggleItem")
        /\ last_event.before.quit_dialog = Some(QuitDialog(last_event.before.state)))
           => recorder.pc = "running"

\* the quit dialog has opened with the focus on Quit
C26_QuitFocused ==
    /\ DialogOpened
    /\ recorder.quit_dialog[1].focused_button = "Quit"
    /\ recorder.pc = "running"

\* ToggleItem with the dialog as it opened has ended the run
C26_ActivatedQuit ==
    /\ InDialog("ToggleItem")
    /\ last_event.before.quit_dialog = Some(QuitDialog(last_event.before.state))
    /\ recorder.pc = "done"
    /\ recorder.result = "Cancelled"

\* the messages a commit of the model has at the start
SuppliedMessages == {commits[1].message : commits \in RecorderCommits}

\* the commits whose message is not what it was at the start
EditedCommits(state) ==
    {c \in 1..Len(state.commits) : state.commits[c].message \notin SuppliedMessages}

\* the files with at least one checked checkbox
SelectedFiles(state) ==
    {i \in 1..Len(state.files) : TRUE \in FileItems(state.files[i])}

\* C27 as stated: the quit dialog counts the commits whose message was edited
\* away from its initial value, a supplied and never edited message not being
\* counted, and the files with a non-empty selection.
C27_CountsEditedMessages ==
    DialogOpened =>
        /\ recorder.quit_dialog[1].num_commit_messages
               = Cardinality(EditedCommits(recorder.state))
        /\ recorder.quit_dialog[1].num_changed_files
               = Cardinality(SelectedFiles(recorder.state))

\* the dialog has opened over a supplied message that was never edited and
\* counts it as one message
C27_SuppliedCounted ==
    /\ DialogOpened
    /\ recorder.state.commits[1].message = Some("hello")
    /\ EditedCommits(recorder.state) = {}
    /\ recorder.quit_dialog[1].num_commit_messages = 1
    /\ recorder.quit_dialog[1].num_changed_files = Cardinality(SelectedFiles(recorder.state))

\* the count of files in the quit dialog is the number of files with a
\* non-empty selection
C27_FileCount ==
    DialogOpened =>
        recorder.quit_dialog[1].num_changed_files
            = Cardinality(SelectedFiles(recorder.state))

\* FocusOuter was handled last, with a line focused and no dialog open
OuterFromLine ==
    /\ Just("FocusOuter")
    /\ last_event.before.selection_key.tag = "Line"

\* the section of the line that had the focus before the last event
SectionBefore ==
    SectionKey(last_event.before.selection_key.file_idx,
               last_event.before.selection_key.section_idx)

\* C28 as stated: FocusOuter from a line gives the focus to the section of
\* the line; with fold_section the section is collapsed in the same step and
\* without it the section stays expanded.
C28_FoldWhenAscending ==
    OuterFromLine =>
        /\ recorder.selection_key = SectionBefore
        /\ last_event.fold_section <=> SectionBefore \notin recorder.expanded_items

\* FocusOuter{fold_section: true} from a line has focused the section and
\* the section is still expanded
C28_StillExpanded ==
    /\ OuterFromLine
    /\ last_event.fold_section
    /\ recorder.selection_key = SectionBefore
    /\ SectionBefore \in recorder.expanded_items
    /\ recorder.expanded_items = last_event.before.expanded_items

\* FocusOuter{fold_section: false} from a line gives the focus to the
\* section and leaves it expanded
C28_NoFoldKeepsExpanded ==
    OuterFromLine /\ ~last_event.fold_section =>
        /\ recorder.selection_key = SectionBefore
        /\ SectionBefore \in recorder.expanded_items

(***************************************************************************)
(* Properties of read_file_info                                            *)
(***************************************************************************)
\* the user-execute, group-execute and other-execute bits, 0o100 0o010 0o001
UserExecute(mode) == BitAnd(mode, 64) = 64

GroupExecute(mode) == BitAnd(mode, 8) = 8

OtherExecute(mode) == BitAnd(mode, 1) = 1

\* read_file_info has returned a FileInfo for a path that exists and is not
\* a symlink
ReadRegular ==
    /\ sel.tag = "read_file_info"
    /\ sel.info.tag = "Ok"
    /\ sel.entry.kind = "Found"
    /\ ~sel.entry.is_symlink

\* C29 as stated: for an existing path that is not a symlink the mode is
\* Unix(0o100755) exactly when the user-execute bit 0o100 is set, and
\* Unix(0o100644) otherwise.
C29_UserExecuteBit ==
    ReadRegular =>
        sel.info.file_mode = IF UserExecute(sel.entry.mode) THEN FILE_EXEC
                             ELSE FILE_DEFAULT

\* a file of mode 0o744, executable by its owner only, is reported 0o100644
C29_OwnerOnlyNotExecutable ==
    /\ ReadRegular
    /\ UserExecute(sel.entry.mode)
    /\ ~GroupExecute(sel.entry.mode)
    /\ ~OtherExecute(sel.entry.mode)
    /\ sel.info.file_mode = FILE_DEFAULT

\* a file of mode 0o645, not executable by its owner, is reported 0o100755
C29_OtherOnlyExecutable ==
    /\ ReadRegular
    /\ ~UserExecute(sel.entry.mode)
    /\ OtherExecute(sel.entry.mode)
    /\ sel.info.file_mode = FILE_EXEC

\* the mode follows the other-execute bit 0o001 alone
C29_OtherExecuteBit ==
    ReadRegular =>
        sel.info.file_mode = IF OtherExecute(sel.entry.mode) THEN FILE_EXEC
                             ELSE FILE_DEFAULT

(***************************************************************************)
(* Properties of get_selected_contents: the emptied file                   *)
(***************************************************************************)
\* a changed line that get_selected_contents pushes to the unselected side
GoesUnselected(l) ==
    \/ l.change_type = Removed /\ l.is_checked
    \/ l.change_type = Added /\ ~l.is_checked

\* get_selected_contents was called on a File without Binary section whose
\* selected mode is not Absent and which holds a checked Removed or an
\* unchecked Added line
HoldsUnselectedLine ==
    /\ sel # NoSel
    /\ ~HasBinary(file)
    /\ sel.selected.file_mode # Absent
    /\ \E i \in 1..Len(AllLines(file.sections)) :
          GoesUnselected(AllLines(file.sections)[i])

\* C30: for a File without Binary section whose selected file mode is not
\* Absent and which holds a checked Removed or an unchecked Added line,
\* selected.contents is Text, never Unchanged.
C30_EmptiedIsText ==
    HoldsUnselectedLine => sel.selected.contents.tag = "Text"

\* an existing file all of whose lines are Removed and checked: the selected
\* contents are the empty text
C30_Witness ==
    /\ HoldsUnselectedLine
    /\ file.file_mode # Absent
    /\ AllLines(file.sections) # << >>
    /\ \A i \in 1..Len(AllLines(file.sections)) :
          /\ AllLines(file.sections)[i].change_type = Removed
          /\ AllLines(file.sections)[i].is_checked
    /\ sel.selected.contents = SelText(EmptyStr)

(***************************************************************************)
(* Properties of the end of create_merge's parse (SpecMerge)               *)
(***************************************************************************)
\* the sections the loop has pushed when it has read `lines`
RECURSIVE LoopSections(_, _, _, _)
LoopSections(state, sections, lines, markers) ==
    IF lines = << >> THEN sections
    ELSE LET r == ParseStep(state, Head(lines), markers)
         IN LoopSections(r.state, sections \o r.section, Tail(lines), markers)

\* the sections pushed before the end of the text read by the call
EmittedBefore(call) == LoopSections(StateEmpty, << >>, call.lines, call.markers)

\* the lines of all sections, in order
RECURSIVE SectionTexts(_)
SectionTexts(sections) ==
    IF sections = << >> THEN << >>
    ELSE (IF Head(sections).tag = "Unchanged" THEN Head(sections).lines
          ELSE [n \in 1..Len(Head(sections).lines) |-> Head(sections).lines[n].line])
         \o SectionTexts(Tail(sections))

\* the lines accumulated for the conflict the state is in
PendingLines(state) == state.left_lines \o state.base_lines \o state.right_lines

\* the marker lines of the conflict the state is in that were read
PendingMarkers(state) ==
    CASE state.kind = "Left" -> 1
      [] state.kind = "Base" -> 2
      [] state.kind = "Right" -> 3
      [] OTHER -> 0

\* C31: at the end of the text the parser pushes the pending Unchanged
\* section in the Unchanged state, nothing in the Empty state, and nothing in
\* the Left, Base and Right states, whose accumulated lines are dropped; the
\* sections pushed before are returned in every case.
C31_EndOfInput ==
    merge_call.pc = "returned" =>
        LET state == merge_call.state
            before == EmittedBefore(merge_call)
        IN CASE state.kind = "Unchanged" ->
                   merge_call.sections = Append(before, SectionUnchanged(state.lines))
             [] state.kind = "Empty" -> merge_call.sections = before
             [] OTHER ->
                   /\ merge_call.sections = before
                   /\ Len(merge_call.lines)
                         = Len(SectionTexts(merge_call.sections))
                           + 4 * Len(SelectSeq(merge_call.sections, IsChanged))
                           + PendingMarkers(state) + Len(PendingLines(state))

\* the parse has returned in the Base state with a left line and a base line
\* accumulated, after an Unchanged section was pushed: the section is
\* returned and the two lines are not
C31_Witness ==
    /\ merge_call.pc = "returned"
    /\ merge_call.state.kind = "Base"
    /\ merge_call.state.left_lines # << >>
    /\ merge_call.state.base_lines # << >>
    /\ Len(merge_call.sections) = 1
    /\ merge_call.sections[1].tag = "Unchanged"
    /\ Len(merge_call.lines) = Len(merge_call.sections[1].lines) + 4

\* the parse has returned in the Unchanged state after a whole conflict
C31_PendingUnchanged ==
    /\ merge_call.pc = "returned"
    /\ merge_call.state.kind = "Unchanged"
    /\ Len(merge_call.sections) = 2
    /\ merge_call.sections[1].tag = "Changed"
    /\ merge_call.sections[2] = SectionUnchanged(merge_call.state.lines)

(***************************************************************************)
(* Properties of create_merge's parse: every line is kept (SpecMerge)      *)
(***************************************************************************)
\* which of the four markers the line starts with, 0 for none
MarkerOf(line, markers) ==
    LET found == {m \in 1..4 : StartsWith(line, markers[m])}
    IN IF found = {} THEN 0 ELSE CHOOSE m \in found : \A k \in found : m <= k

\* the markers of the lines read, in order
RECURSIVE MarkerSeq(_, _)
MarkerSeq(lines, markers) ==
    IF lines = << >> THEN << >>
    ELSE (IF MarkerOf(Head(lines), markers) = 0 THEN << >>
          ELSE <<MarkerOf(Head(lines), markers)>>)
         \o MarkerSeq(Tail(lines), markers)

\* the lines read that start with no marker, in order
RECURSIVE PlainLines(_, _)
PlainLines(lines, markers) ==
    IF lines = << >> THEN << >>
    ELSE (IF MarkerOf(Head(lines), markers) = 0 THEN <<Head(lines)>> ELSE << >>)
         \o PlainLines(Tail(lines), markers)

\* the marker lines of the text are left, base-start, base-end, right, and
\* so on, and the last conflict is complete
MarkersInOrder(call) ==
    LET ms == MarkerSeq(call.lines, call.markers)
    IN /\ Len(ms) % 4 = 0
       /\ \A n \in 1..Len(ms) : ms[n] = ((n - 1) % 4) + 1

\* the state of the loop when it has read `lines`
RECURSIVE LoopState(_, _, _)
LoopState(state, lines, markers) ==
    IF lines = << >> THEN state
    ELSE LoopState(ParseStep(state, Head(lines), markers).state, Tail(lines), markers)

\* the state before the line read last
StateBefore(call) ==
    LoopState(StateEmpty, SubSeq(call.lines, 1, Len(call.lines) - 1), call.markers)

\* the sections pushed before the line read last
SectionsBefore(call) ==
    LoopSections(StateEmpty, << >>, SubSeq(call.lines, 1, Len(call.lines) - 1),
                 call.markers)

\* the marker that ends the state: 1 left, 2 base-start, 3 base-end, 4 right
Expected(state) ==
    CASE state.kind = "Left" -> 2
      [] state.kind = "Base" -> 3
      [] state.kind = "Right" -> 4
      [] OTHER -> 1

\* the vector the state pushes ordinary lines to
Accumulator(state) ==
    CASE state.kind = "Unchanged" -> state.lines
      [] state.kind = "Left" -> state.left_lines
      [] state.kind = "Base" -> state.base_lines
      [] state.kind = "Right" -> state.right_lines
      [] OTHER -> << >>

\* the line read last is a marker the state before it did not expect
UnexpectedMarkerRead ==
    /\ merge_call.pc \in {"parse", "returned"}
    /\ merge_call.lines # << >>
    /\ MarkerOf(merge_call.lines[Len(merge_call.lines)], merge_call.markers) # 0
    /\ MarkerOf(merge_call.lines[Len(merge_call.lines)], merge_call.markers)
          # Expected(StateBefore(merge_call))

\* the sections returned for a text whose markers are in order hold every
\* line that is no marker once and in order, and no marker
EveryLineKept ==
    (merge_call.pc = "returned" /\ MarkersInOrder(merge_call)) =>
        SectionTexts(merge_call.sections)
            = PlainLines(merge_call.lines, merge_call.markers)

\* the unexpected marker read last was pushed to the accumulator and no
\* section was pushed
PushedAsContent ==
    UnexpectedMarkerRead =>
        /\ Accumulator(merge_call.state)
              = Append(Accumulator(StateBefore(merge_call)),
                       merge_call.lines[Len(merge_call.lines)])
        /\ EmittedBefore(merge_call) = SectionsBefore(merge_call)

\* C32 as stated: for a text whose markers are in order the sections hold
\* every line that is no marker once and in order and hold no marker; a
\* marker met in a state that does not expect it is pushed to the current
\* accumulator and the state does not change.
C32_UnexpectedKeepsState ==
    /\ EveryLineKept
    /\ PushedAsContent
    /\ UnexpectedMarkerRead =>
           merge_call.state.kind = StateBefore(merge_call).kind

\* a step of the loop that reads a marker the state does not expect
UnexpectedMarkerStep ==
    /\ merge_call.pc = "parse" /\ merge_call'.pc = "parse"
    /\ Len(merge_call'.lines) = Len(merge_call.lines) + 1
    /\ MarkerOf(merge_call'.lines[Len(merge_call'.lines)], merge_call.markers) # 0
    /\ MarkerOf(merge_call'.lines[Len(merge_call'.lines)], merge_call.markers)
          # Expected(merge_call.state)

\* the step pushes the line to the accumulator of the state and pushes no
\* section; the state stays, except that Empty becomes Unchanged
ReadAsContent ==
    UnexpectedMarkerStep =>
        /\ Accumulator(merge_call'.state)
              = Append(Accumulator(merge_call.state),
                       merge_call'.lines[Len(merge_call'.lines)])
        /\ merge_call'.sections = merge_call.sections
        /\ merge_call'.state.kind
              = IF merge_call.state.kind = "Empty" THEN "Unchanged"
                ELSE merge_call.state.kind
        /\ Len(PendingLines(merge_call'.state)) + Len(merge_call'.state.lines)
              = Len(PendingLines(merge_call.state)) + Len(merge_call.state.lines) + 1

\* C32 amended: as stated, except that a marker other than the left one met
\* in the Empty state starts an Unchanged section holding it, as any other
\* line does; in the Unchanged, Left, Base and Right states the state stays
\* and only its accumulator grows.
C32_UnexpectedIsContent == []EveryLineKept /\ [][ReadAsContent]_vars

\* a right marker was read in the Empty state that a complete conflict left:
\* the state is Unchanged and holds the marker
C32_Witness ==
    /\ UnexpectedMarkerRead
    /\ StateBefore(merge_call).kind = "Empty"
    /\ Len(merge_call.lines) > 1
    /\ merge_call.state = StateUnchanged(<<merge_call.lines[Len(merge_call.lines)]>>)

\* a text with one complete conflict and a line on each side of it was
\* parsed to three sections
C32_AllKept ==
    /\ merge_call.pc = "returned"
    /\ MarkersInOrder(merge_call)
    /\ Len(merge_call.lines) = 6
    /\ Len(merge_call.sections) = 2
    /\ Len(SectionTexts(merge_call.sections)) = 2

\* a left marker was read in the Base state and is a base line now
C32_MarkerInConflict ==
    /\ UnexpectedMarkerRead
    /\ StateBefore(merge_call).kind = "Base"
    /\ merge_call.state.kind = "Base"
    /\ MarkerOf(merge_call.lines[Len(merge_call.lines)], merge_call.markers) = 1

(***************************************************************************)
(* Properties of make_conflict_markers: the length found (SpecMarkersFair) *)
(***************************************************************************)
\* a run of k characters c occurs in the text
RunOccurs(all, c, k) ==
    \E i \in 1..(Len(all) - k + 1) : \A j \in i..(i + k - 1) : all[j] = c

\* one of the four marker characters has a run of k in the text
SomeRunOccurs(all, k) == \E c \in MarkerChars : RunOccurs(all, c, k)

\* the markers returned have one length n >= 7, the least such length at
\* which no marker occurs in base ++ left ++ right, and n is at most the
\* length of the concatenation plus one, or 7
LeastFreeLength ==
    marker_call.pc = "returned" =>
        LET all == All(marker_call)
            n == Len(marker_call.markers[1][1])
        IN /\ marker_call.markers[1]
                = <<Repeat("<", n), Repeat("|", n), Repeat("=", n), Repeat(">", n)>>
           /\ n >= 7
           /\ ~SomeRunOccurs(all, n)
           /\ \A k \in 7..(n - 1) : SomeRunOccurs(all, k)
           /\ n <= IF Len(all) + 1 > 7 THEN Len(all) + 1 ELSE 7

\* C33: make_conflict_markers terminates and returns four markers of one
\* length n >= 7, the least length >= 7 at which none of the four markers
\* occurs in base ++ left ++ right; n is at most the length of the
\* concatenation plus one, or 7.
C33_MarkersTerminate == []LeastFreeLength /\ <>(marker_call.pc = "returned")

\* the three inputs are runs of one character, so that the length returned
\* is that of the concatenation plus one
C33_Witness ==
    /\ marker_call.pc = "returned"
    /\ Len(marker_call.markers[1][1]) = Len(All(marker_call)) + 1
    /\ Len(All(marker_call)) > 2 * InitialMarkerLen
    /\ marker_call.left # << >>

(***************************************************************************)
(* Properties of print_dry_run against apply_changes (Spec)                *)
(***************************************************************************)
\* print_dry_run prints the message for the i-th file
Reports(i, message) ==
    \E n \in 1..Len(DryRunReport(files[i])) : DryRunReport(files[i])[n] = message

\* the path apply_changes writes the i-th file to
TargetPath(i) == Join(write_root, files[i].path)

\* apply_changes wrote or copied to the target of the i-th file
Updated(i) ==
    \E k \in 1..Len(ops) :
        /\ ops[k].file = i
        /\ ops[k].op \in {"write_file", "copy_file"}
        /\ ops[k].path = TargetPath(i)

\* C34 as stated: for every file of the state the dry run reports a deletion
\* exactly when apply_changes leaves the target absent (a target that was
\* absent and is not touched aside), an update of a text or binary file
\* exactly when apply_changes writes or copies to the target, and an
\* unchanged file only when apply_changes issues no operation for it.
C34_DryRunAgrees ==
    Applied =>
        \A i \in 1..Len(files) :
            /\ Reports(i, "Would delete file") => ~Exists(fs[TargetPath(i)])
            /\ (Exists(fs0[TargetPath(i)]) /\ ~Exists(fs[TargetPath(i)]))
                   => Reports(i, "Would delete file")
            /\ (Reports(i, "Would update text file")
                    \/ Reports(i, "Would update binary file")) <=> Updated(i)
            /\ Reports(i, "Would leave file unchanged")
                   => \A k \in 1..Len(ops) : ops[k].file # i

\* a file for which the dry run reports only a deletion and which
\* apply_changes removed and then wrote: the target holds a text
C34_DeletedButWritten ==
    /\ Applied
    /\ \E i \in 1..Len(files) :
          /\ DryRunReport(files[i]) = <<"Would delete file">>
          /\ Updated(i)
          /\ Exists(fs[TargetPath(i)])
          /\ fs[TargetPath(i)].contents.tag = "Text"

\* where the selected mode is not Absent the two functions agree
C34_AgreeUnlessDeleted ==
    Applied =>
        \A i \in 1..Len(files) :
            SelectedOf(i).file_mode # Absent =>
                /\ (Reports(i, "Would update text file")
                        \/ Reports(i, "Would update binary file")) <=> Updated(i)
                /\ Reports(i, "Would leave file unchanged")
                       => \A k \in 1..Len(ops) : ops[k].file # i
                /\ ~Reports(i, "Would delete file")

(***************************************************************************)
(* Properties of toggle_all against get_selected_contents (SpecChecked)    *)
(***************************************************************************)
\* file.toggle_all() was the last call
FileToggled == sel.tag = "toggle_all" /\ sel.target = 0

\* SelectedContents with Unchanged read as the empty text
AsText(contents) == IF contents = SelUnchanged THEN SelText(EmptyStr) ELSE contents

\* C35 as stated: after file.toggle_all() the selected result of
\* get_selected_contents is the unselected result before the call and the
\* unselected result is the selected result before it.
C35_ToggleSwaps ==
    FileToggled =>
        /\ GetSelectedContents(file).selected = GetSelectedContents(sel.before).unselected
        /\ GetSelectedContents(file).unselected = GetSelectedContents(sel.before).selected

\* C35 amended: the two file modes are swapped, and the two contents are
\* swapped up to the difference between Unchanged and the empty text: a
\* side is Binary with the same descriptions or holds the same text as the
\* other side held before, Unchanged counting as the empty text.
C35_ToggleSwapsText ==
    FileToggled =>
        LET after == GetSelectedContents(file)
            before == GetSelectedContents(sel.before)
        IN /\ after.selected.file_mode = before.unselected.file_mode
           /\ after.unselected.file_mode = before.selected.file_mode
           /\ AsText(after.selected.contents) = AsText(before.unselected.contents)
           /\ AsText(after.unselected.contents) = AsText(before.selected.contents)

\* an existing file with one unchecked Added line is toggled: the selected
\* side was the empty text and the unselected side is Unchanged now
C35_Witness ==
    /\ FileToggled
    /\ sel.before.file_mode # Absent
    /\ sel.before.sections = <<SectionChanged(<<SectionChangedLine(FALSE, Added, AddedText)>>)>>
    /\ GetSelectedContents(sel.before).selected.contents = SelText(EmptyStr)
    /\ GetSelectedContents(file).unselected.contents = SelUnchanged
    /\ GetSelectedContents(file).selected.contents = SelText(AddedText)

\* a file whose FileMode section is toggled with it: the modes are swapped
C35_ModesSwapped ==
    /\ FileToggled
    /\ GetSelectedContents(file).selected.file_mode
          # GetSelectedContents(file).unselected.file_mode
    /\ GetSelectedContents(file).selected.file_mode
          = GetSelectedContents(sel.before).unselected.file_mode

(***************************************************************************)
(* Properties of the Files create_file returns (Spec)                      *)
(***************************************************************************)
\* the places of the sections of a kind in the file
SectionsOfKind(f, tag) == {j \in 1..Len(f.sections) : f.sections[j].tag = tag}

\* the file has at most one FileMode section, present exactly when the two
\* modes differ and then first; not both a Binary and a Changed section; and
\* no checked checkbox, so that its tristate is False
CreatedWellFormed(f, left, right) ==
    /\ Cardinality(SectionsOfKind(f, "FileMode")) <= 1
    /\ SectionsOfKind(f, "FileMode") # {} <=> left.file_mode # right.file_mode
    /\ SectionsOfKind(f, "FileMode") \subseteq {1}
    /\ SectionsOfKind(f, "Binary") = {} \/ SectionsOfKind(f, "Changed") = {}
    /\ TRUE \notin FileItems(f)
    /\ FileTristate(f) = "False"

\* the FileInfo create_file read on the left and on the right for the file
LeftInfo(o, f) == IF o.dir_diff THEN fs0[Join(o.left, f.path)] ELSE fs0[o.left]

RightInfo(o, f) == IF o.dir_diff THEN fs0[Join(o.right, f.path)] ELSE fs0[o.right]

\* process_opts returns the Files of a two-way diff or of a dir-diff
CreateFileStep == ProcessOpts /\ ~MergeMode /\ pc' = "recorder"

\* C36: every File create_file returns has at most one FileMode section,
\* present exactly when the left and right modes differ and then first,
\* never both a Binary and a Changed section, and every is_checked false,
\* so that its tristate is False.
C36_CreatedFiles ==
    [][CreateFileStep =>
          \A i \in 1..Len(files') :
              CreatedWellFormed(files'[i], LeftInfo(opts, files'[i]),
                                RightInfo(opts, files'[i]))]_vars

\* create_file has returned a File for an executable left and a plain right
\* with other text: a FileMode section, then the sections of the diff
C36_Witness ==
    /\ DiffMode /\ pc = "recorder" /\ NoneChecked
    /\ fs0[LeftPath].file_mode = FILE_EXEC
    /\ fs0[RightPath].file_mode = FILE_DEFAULT
    /\ Len(files) = 1
    /\ files[1].sections[1] = SectionFileMode(FALSE, FILE_DEFAULT)
    /\ SectionsOfKind(files[1], "Changed") # {}
    /\ FileTristate(files[1]) = "False"

\* create_file has returned a File with a Binary section for a text and a
\* binary file
C36_BinaryAlone ==
    /\ DiffMode /\ pc = "recorder" /\ NoneChecked
    /\ fs0[LeftPath].contents.tag = "Text"
    /\ fs0[RightPath].contents.tag = "Binary"
    /\ SectionsOfKind(files[1], "Binary") # {}
    /\ SectionsOfKind(files[1], "Changed") = {}

(***************************************************************************)
(* The frame of set_checked and toggle_all (SpecChecked)                   *)
(***************************************************************************)
\* a section without its is_checked flags
SectionShape(s) ==
    CASE s.tag = "Unchanged" -> s
      [] s.tag = "Changed" ->
            [tag |-> "Changed",
             lines |-> [k \in 1..Len(s.lines) |->
                           [change_type |-> s.lines[k].change_type,
                            line |-> s.lines[k].line]]]
      [] s.tag = "FileMode" -> [tag |-> "FileMode", mode |-> s.mode]
      [] s.tag = "Binary" ->
            [tag |-> "Binary", old_description |-> s.old_description,
             new_description |-> s.new_description]

\* a file without its is_checked flags
FileShape(f) ==
    [old_path |-> f.old_path, path |-> f.path, file_mode |-> f.file_mode,
     sections |-> [j \in 1..Len(f.sections) |-> SectionShape(f.sections[j])]]

\* the step is a call of set_checked or toggle_all, on the file or a section
CheckedCall == sel'.tag \in {"set_checked", "toggle_all"}

\* the call has changed nothing but is_checked flags, and none outside the
\* section it was called on
OnlyFlagsChanged ==
    /\ FileShape(file') = FileShape(file)
    /\ sel'.target # 0 =>
          \A j \in 1..Len(file.sections) :
              j # sel'.target => file'.sections[j] = file.sections[j]

\* toggle_all called again on the same target gives the value before the call
ToggledBack ==
    sel'.tag = "toggle_all" =>
        IF sel'.target = 0
        THEN FileToggleAll(file') = file
        ELSE SectionToggleAll(file'.sections[sel'.target])
                 = file.sections[sel'.target]

\* C37: set_checked and toggle_all on a File or Section change nothing but
\* is_checked flags (sections, lines, texts, change types, Unchanged
\* sections, modes, descriptions, file_mode, path and old_path are kept),
\* and toggle_all applied twice restores the original value.
C37_OnlyFlags == [][CheckedCall => OnlyFlagsChanged /\ ToggledBack]_vars

\* toggle_all has inverted a file with a changed line beside another section
\* and the file differs from the one before the call
C37_Witness ==
    /\ sel.tag = "toggle_all" /\ sel.target = 0
    /\ file # sel.before
    /\ FileShape(file) = FileShape(sel.before)
    /\ FileToggleAll(file) = sel.before
    /\ Len(file.sections) >= 2
    /\ \E j \in 1..Len(file.sections) :
          file.sections[j].tag = "Changed" /\ file.sections[j].lines # << >>

\* set_checked(true) has been called on one section of a file that holds an
\* unchecked box in another section
C37_SectionSet ==
    /\ sel.tag = "set_checked" /\ sel.target # 0 /\ sel.checked
    /\ \E j \in 1..Len(file.sections) :
          /\ j # sel.target
          /\ file.sections[j].tag \in {"FileMode", "Binary"}
          /\ ~file.sections[j].is_checked

(***************************************************************************)
(* The frame of apply_changes (Spec)                                       *)
(***************************************************************************)
\* the paths write_root/path of the files of the state
TargetPaths == {Join(write_root, files[i].path) : i \in 1..Len(files)}

\* the paths process_opts read as the inputs: the left side of a diff, the
\* files under the left root of a dir-diff, base, left and right of a merge
InputPaths ==
    IF opts.dir_diff
    THEN {Join(opts.left, RelPaths[i]) : i \in 1..Len(RelPaths)}
    ELSE IF opts.base = None THEN {opts.left}
    ELSE {opts.base[1], opts.left, opts.right}

\* the old_path of the files of the state
OldPaths == {files[i].old_path[1] : i \in {j \in 1..Len(files) : files[j].old_path # None}}

\* a filesystem call is on the target path of the file it was issued for,
\* or creates the parent directory of that path
OnTarget(o) ==
    LET target == Join(write_root, files[o.file].path)
    IN IF o.op = "create_dir_all" THEN Some(o.path) = Parent(target)
       ELSE o.path = target

\* a step changes the filesystem at target paths only, and logs calls on
\* target paths only
TargetsOnlyStep ==
    /\ \A p \in AllPaths : fs'[p] # fs[p] => p \in TargetPaths
    /\ \A k \in 1..Len(ops') : OnTarget(ops'[k])

\* the inputs and the old paths hold what they held when the run began
InputsKept == \A p \in InputPaths \cup OldPaths : fs[p] = fs0[p]

\* C38: apply_changes mutates only the target paths write_root/path of the
\* files of the state (and creates their parent directories); it never
\* writes to, copies onto or removes an old_path or any other path, so the
\* left side of a diff and base, left and right of a merge stay unchanged.
C38_OnlyTargets == []InputsKept /\ [][TargetsOnlyStep]_vars

\* a diff has been applied with the binary right side copied from the left
\* one: the target has changed and the left side has not
C38_Witness ==
    /\ Applied /\ DiffMode
    /\ fs[RightPath] # fs0[RightPath]
    /\ fs[LeftPath] = fs0[LeftPath]
    /\ files[1].old_path = Some(LeftPath)
    /\ \E k \in 1..Len(ops) :
          ops[k].op = "copy_file" /\ ops[k].ok /\ ops[k].arg = Some(LeftPath)

\* a merge has been applied: the output is written after its parent
\* directory was created, and base, left and right are as they were
C38_MergeApplied ==
    /\ Applied /\ MergeMode
    /\ fs[OutputPath] # fs0[OutputPath]
    /\ \A p \in {BasePath, LeftPath, RightPath} : fs[p] = fs0[p]
    /\ \E k \in 1..Len(ops) : ops[k].op = "create_dir_all" /\ ops[k].ok
    /\ \E k \in 1..Len(ops) : ops[k].op = "write_file" /\ ops[k].ok

\* a dir-diff has been applied that removed a file under the right root
C38_DirDiffApplied ==
    /\ Applied /\ opts.dir_diff
    /\ \E k \in 1..Len(ops) :
          /\ ops[k].op = "remove_file" /\ ops[k].ok
          /\ ops[k].path \in {Join(RightRoot, RelPaths[i]) : i \in 1..Len(RelPaths)}
    /\ fs # fs0

(***************************************************************************)
(* The tristate of a file and those of its sections (SpecChecked)          *)
(***************************************************************************)
\* the places of the editable sections of the file
EditableSections == {j \in 1..Len(file.sections) : IsEditable(file.sections[j])}

\* the places of the sections that hold a checkbox: a Changed section
\* with a line, a FileMode section, a Binary section
CheckableSections == {j \in EditableSections : SectionItems(file.sections[j]) # {}}

\* tristate has been called on the file and on each of its sections
TristateCalled == sel.tag = "tristate"

\* C39 as stated: File::tristate is True only if every editable section has
\* Section::tristate True, and False only if every editable section has
\* Section::tristate False.
C39_FileAgreesWithSections ==
    TristateCalled =>
        /\ sel.file = "True" =>
              \A j \in EditableSections : sel.sections[j] = "True"
        /\ sel.file = "False" =>
              \A j \in EditableSections : sel.sections[j] = "False"

\* C39 amended: File::tristate is True only if every editable section that
\* holds a checkbox has Section::tristate True (a Changed section without
\* lines is False whatever the file is), and False only if every editable
\* section has Section::tristate False.
C39_FileAgreesWithCheckable ==
    TristateCalled =>
        /\ sel.file = "True" =>
              /\ \A j \in CheckableSections : sel.sections[j] = "True"
              /\ \A j \in EditableSections \ CheckableSections :
                    sel.sections[j] = "False"
        /\ sel.file = "False" =>
              \A j \in EditableSections : sel.sections[j] = "False"

\* the file is True beside a Changed section without lines, which is False
C39_Witness ==
    /\ TristateCalled
    /\ sel.file = "True"
    /\ CheckableSections # {}
    /\ \E j \in EditableSections :
          /\ file.sections[j] = SectionChanged(<< >>)
          /\ sel.sections[j] = "False"

\* the file is False with two editable sections, one of them a Changed
\* section with an unchecked line
C39_AllFalse ==
    /\ TristateCalled
    /\ sel.file = "False"
    /\ Cardinality(CheckableSections) >= 2
    /\ \E j \in CheckableSections : file.sections[j].tag = "Changed"

\* create_file has returned such a file and the user has checked every box:
\* an absent left side and an empty right side, a FileMode section and a
\* Changed section without lines
C39_CreatedEmptyChanged ==
    /\ pc = "recorder" /\ DiffMode
    /\ Len(files) = 1
    /\ Len(files[1].sections) = 2
    /\ files[1].sections[1] = SectionFileMode(TRUE, FILE_DEFAULT)
    /\ files[1].sections[2] = SectionChanged(<< >>)
    /\ FileTristate(files[1]) = "True"
    /\ SectionTristate(files[1].sections[2]) = "False"

=============================================================================
